---- MODULE Spec2Model ----
(***************************************************************************)
(* Model of the Dex improvements backlog server                            *)
(* (src/core/mcp/dex_improvements_server.py).                              *)
(*                                                                         *)
(* The backlog document is a sequence of tokens.  A token is either a line *)
(* break ("nl") or the text of (a part of) one line: a heading, a          *)
(* separator, an italic placeholder, an entry marker "- **[idea-NNN]** t", *)
(* or one of the indented metadata bullets of an entry.  The regular       *)
(* expressions of the source are translated to scans over this sequence,   *)
(* so that line breaks, blank lines and text glued to the end of a line    *)
(* behave as they do in the file.                                          *)
(***************************************************************************)
EXTENDS Integers, Sequences, FiniteSets, TLC

VARIABLES
    exists,     \* BACKLOG_FILE.exists()
    doc,        \* BACKLOG_FILE contents, a sequence of tokens
    today,      \* the date datetime.now() reports, in days
    changelog,  \* CHANGELOG_FILE: sequence of [date, feature] bullet lines
    state,      \* SYNTHESIS_STATE_FILE contents
    assigned,   \* history: ids handed out by generate_idea_id so far
    res,        \* the result record of the last call
    tasks,      \* the tool calls handed to the event loop and not yet collected
    upd,        \* update checker: .update-available and .last-update-check
    qmd,        \* qmd_query: the module globals _qmd_path and _qmd_available
    learnings   \* the blocks of the session learnings files, newest file first

vars == <<exists, doc, today, changelog, state, assigned, res, tasks, upd, qmd, learnings>>

\* the variables the backlog tool calls, run one at a time, do not touch
ext == <<tasks, upd, qmd, learnings>>

\* the variables of the backlog server
backlog == <<exists, doc, changelog, state, assigned, tasks, learnings>>

\* no call is waiting in the event loop
NoTasks == [base |-> <<>>, calls |-> <<>>, pc |-> <<>>, local |-> <<>>, batch |-> 0]

\* no .update-available, no .last-update-check (0 stands for None); marked
\* is history: the day of the last mark_update_notified call that found the
\* notification file
NoUpd == [note |-> <<>>, last_check |-> 0, marked |-> 0]

\* _qmd_path = None, _qmd_available = None; probes and seen are history: the
\* number of "qmd status" subprocesses run and the availability values
\* returned since the module was loaded or reset_cache was called, total the
\* number of such subprocesses run in all
NoQmd == [path |-> "unset", available |-> "unset", probes |-> 0, seen |-> {}, total |-> 0]

ExtInit == tasks = NoTasks /\ upd = NoUpd /\ qmd = NoQmd /\ learnings = <<>>

-----------------------------------------------------------------------------
(* Bounds of the model.                                                    *)

MaxIdeas == 2       \* entries created per behaviour
MaxEnrich == 1      \* annotations per document when every tool is called
MaxAnnotations == 2 \* annotations per document when the backlog tools are called
MaxDay == 2         \* last value of today
MaxRuns == 2        \* synthesis runs recorded per behaviour
MaxLog == 1         \* bullet lines of the changelog

-----------------------------------------------------------------------------
(* Tokens.                                                                 *)

Tok(k, id, s, t, d, n) == [k |-> k, id |-> id, s |-> s, t |-> t, d |-> d, n |-> n]

NL == Tok("nl", 0, "", "", 0, 0)
Plain(k) == Tok(k, 0, "", "", 0, 0)

\* "- **[idea-NNN]** title" and, for an archive record, " - *Implemented: d*".
\* title is [s, t, n]: the text s and, when that text is itself a metadata
\* line ("- **Score:** n"), the kind t and the number n of that line
Marker(id, title, impl) == Tok("marker", id, title.s, title.t, impl, title.n)
Title(s) == [s |-> s, t |-> "", n |-> 0]

IsNL(t) == t.k = "nl"
IsMarker(t) == t.k = "marker"
\* a line that starts with "##" (level-2 and level-3 headings)
IsHeading(t) == t.k \in {"h2pq", "h3high", "h3med", "h3low", "h2arch", "h2sum"}
\* a line whose first non-blank character is "-"
StartsDash(t) == t.k \in {"marker", "sep", "author", "score", "category",
                          "captured", "source", "description", "enrich"}

Min(S) == CHOOSE x \in S : \A y \in S : x <= y
Max(S) == CHOOSE x \in S : \A y \in S : x >= y

\* content[:p] and content[p:], p the index of the first token of the rest
Before(c, p) == SubSeq(c, 1, p - 1)
From(c, p) == SubSeq(c, p, Len(c))

\* first index >= p that holds no line break (Len + 1 when there is none)
SkipNL(c, p) == Min({q \in p..(Len(c) + 1) : q = Len(c) + 1 \/ ~IsNL(c[q])})

-----------------------------------------------------------------------------
(* Program constants.                                                      *)

CATEGORIES == {"workflows", "automation", "relationships", "tasks", "projects",
               "knowledge", "system", "ux", "integration", "performance",
               "intelligence"}

\* the Score line of an unranked entry (the text in parentheses is abbreviated)
NotRanked == "- **Score:** 0 (not yet ranked)"

\* f"idea-{n:03d}" has three digits exactly when n < 1000
IdDigits(n) == IF n < 1000 THEN 3 ELSE 4

\* the pattern \[idea-(\d{3})\] matches the marker of id n
MatchesIdPattern(n) == IdDigits(n) = 3

-----------------------------------------------------------------------------
(* generate_idea_id                                                        *)

ExistingIds(c) == {c[i].id : i \in {j \in 1..Len(c) : IsMarker(c[j]) /\ MatchesIdPattern(c[j].id)}}

generate_idea_id(e, c) ==
    IF ~e THEN 1
    ELSE IF ExistingIds(c) = {} THEN 1
    ELSE Max(ExistingIds(c)) + 1

-----------------------------------------------------------------------------
(* parse_backlog_file                                                      *)

\* the text of a metadata line, as the title group (.+?) captures it
LineText(t) ==
    CASE t.k = "score" -> (IF t.n > 0 THEN "- **Score:** " \o ToString(t.n) ELSE NotRanked)
      [] t.k = "author" -> "- **Author:** " \o t.s
      [] OTHER -> "- " \o t.k

\* index of the token the title group captures: \s* runs over line breaks
\* when nothing but white space follows the marker on its line
TitleTok(c, i) == IF c[i].s # "" THEN i ELSE SkipNL(c, i + 1)

\* idea_pattern matches at the marker c[i]
ParseMatches(c, i) ==
    /\ IsMarker(c[i])
    /\ MatchesIdPattern(c[i].id)
    /\ TitleTok(c, i) <= Len(c)

\* match.end(): past the line break that ends the title line
TitleEnd(c, i) ==
    LET j == TitleTok(c, i)
        brk == {q \in (j + 1)..Len(c) : IsNL(c[q])}
    IN  IF brk = {} THEN Len(c) + 1 ELSE Min(brk) + 1

ParsedTitle(c, i) ==
    LET j == TitleTok(c, i)
    IN  IF j = i THEN [s |-> c[i].s, t |-> c[i].t, n |-> c[i].n, d |-> c[i].d]
        ELSE [s |-> LineText(c[j]), t |-> c[j].k, n |-> c[j].n, d |-> 0]

\* (?:\n-\s*\*\*\[idea-|\n###|\n##) at index q of c
IsBlockEnd(c, q) ==
    /\ IsNL(c[q])
    /\ q + 1 <= Len(c)
    /\ (IsMarker(c[q + 1]) \/ IsHeading(c[q + 1]))

\* last index of the metadata block that starts at p
ParseBlockLast(c, p) ==
    LET ends == {q \in p..Len(c) : IsBlockEnd(c, q)}
    IN  IF ends = {} THEN Len(c) ELSE Min(ends) - 1

\* first line of the block that holds the label "**k:**": the metadata line,
\* or a marker whose title is the text of such a line
FirstOfKind(c, lo, hi, k) ==
    LET hits == {q \in lo..hi : c[q].k = k \/ (IsMarker(c[q]) /\ c[q].t = k)}
    IN  IF hits = {} THEN 0 ELSE Min(hits)

\* (.+?)(?:\n\s*-|\n\s*\*\*|$): the description runs on over the following
\* lines until one starts with "-" or "**", or the block ends
ParsedDescription(c, lo, hi) ==
    LET m == FirstOfKind(c, lo, hi, "description")
        nxt == SkipNL(c, m + 1)
    IN  IF m = 0 THEN ""
        ELSE IF nxt <= hi /\ ~StartsDash(c[nxt]) THEN c[m].s \o " (continued)"
        ELSE c[m].s

\* a sample title that holds the words 'Archive (Implemented)'
TX == "Show dates in the Archive (Implemented) section"

\* 'Archive (Implemented)' in the text of a token: the Archive heading and
\* the lines that carry TX
HoldsArchiveWords(t) == t.k = "h2arch" \/ t.s = TX

ParsedIdea(c, i, now) ==
    LET lo == TitleEnd(c, i)
        hi == ParseBlockLast(c, lo)
        sc == FirstOfKind(c, lo, hi, "score")
        ca == FirstOfKind(c, lo, hi, "category")
        cp == FirstOfKind(c, lo, hi, "captured")
    IN  [id |-> c[i].id,
         title |-> ParsedTitle(c, i),
         score |-> IF sc = 0 THEN 0 ELSE c[sc].n,
         category |-> IF ca = 0 THEN "system" ELSE c[ca].s,
         captured |-> IF cp = 0 THEN now ELSE c[cp].d,
         description |-> ParsedDescription(c, lo, hi),
         status |-> IF \E h \in 1..(i - 1) : HoldsArchiveWords(c[h])
                    THEN "implemented" ELSE "active",
         at |-> i]

RECURSIVE IdeasFrom(_, _, _)
IdeasFrom(c, S, now) ==
    IF S = {} THEN <<>>
    ELSE <<ParsedIdea(c, Min(S), now)>> \o IdeasFrom(c, S \ {Min(S)}, now)

parse_backlog_file(e, c, now) ==
    IF ~e THEN <<>>
    ELSE IdeasFrom(c, {i \in 1..Len(c) : ParseMatches(c, i)}, now)

\* the first idea of the list with the id, as a sequence of 0 or 1 ideas
FirstWithId(ideas, id) ==
    LET hits == {k \in 1..Len(ideas) : ideas[k].id = id}
    IN  IF hits = {} THEN <<>> ELSE <<ideas[Min(hits)]>>

-----------------------------------------------------------------------------
(* initialize_backlog_file and insert_idea_into_priority_queue             *)

\* the file initialize_backlog_file writes; "txt" stands for the title and the
\* introduction, which hold no entry, no priority heading and no italic line
\* that any pattern of the program looks for
Template ==
    <<Plain("txt"), NL, NL, Plain("sep"), NL, NL,
      Plain("h2pq"), NL, NL, Plain("txt"), NL, NL,
      Plain("h3high"), NL, NL, Plain("it"), NL, NL,
      Plain("h3med"), NL, NL, Plain("it"), NL, NL,
      Plain("h3low"), NL, NL, Plain("it"), NL, NL,
      Plain("sep"), NL, NL,
      Plain("h2arch"), NL, NL, Plain("it"), NL, NL,
      Plain("sep"), NL, NL, Plain("it"), NL>>

\* idea_entry: the formatted block, each line ended, then a blank line
IdeaEntry(id, title, description, category, score, author, source, now) ==
    <<Marker(id, Title(title), 0), NL>>
    \o (IF author # "" THEN <<Tok("author", 0, author, "", 0, 0), NL>> ELSE <<>>)
    \o <<Tok("score", 0, "", "", 0, score), NL,
         Tok("category", 0, category, "", 0, 0), NL,
         Tok("captured", 0, "", "", now, 0), NL>>
    \o (IF source # "" THEN <<Tok("source", 0, source, "", 0, 0), NL>> ELSE <<>>)
    \o <<Tok("description", 0, description, "", 0, 0), NL, NL>>

SectionKind_flat(score) == "h3low"

SectionKind(score) ==
    IF score >= 85 THEN "h3high"
    ELSE IF score >= 60 THEN "h3med"
    ELSE "h3low"

\* heading \s*\n (?:\s*\*[^*]+\*\s*\n)?  matched at the heading c[h]: the index
\* after the match (0 when the heading is not followed by a line break)
AfterHeading(c, h) ==
    IF h + 1 > Len(c) \/ ~IsNL(c[h + 1]) THEN 0
    ELSE LET p == SkipNL(c, h + 1)
         IN  IF p + 1 <= Len(c) /\ c[p].k = "it" /\ IsNL(c[p + 1])
             THEN SkipNL(c, p + 1)
             ELSE p

\* re.search(section_pattern, content): index after the first match, or 0
SectionInsertPos(c, kind) ==
    LET hs == {h \in 1..Len(c) : c[h].k = kind /\ AfterHeading(c, h) # 0}
    IN  IF hs = {} THEN 0 ELSE AfterHeading(c, Min(hs))

\* re.search(r'(## Archive|## Summary|---\s*$)', content): start of the first
\* match, or 0
FallbackPos(c) ==
    LET fs == {f \in 1..Len(c) :
                  \/ c[f].k \in {"h2arch", "h2sum"}
                  \/ c[f].k = "sep" /\ \A q \in (f + 1)..Len(c) : IsNL(c[q])}
    IN  IF fs = {} THEN 0 ELSE Min(fs)

insert_idea_into_priority_queue(e, c, id, title, description, category, score, author, source, now) ==
    LET content == IF e THEN c ELSE Template
        entry == IdeaEntry(id, title, description, category, score, author, source, now)
        pos == SectionInsertPos(content, SectionKind(score))
        fb == FallbackPos(content)
    IN  IF pos # 0
        THEN Before(content, pos) \o <<NL>> \o entry \o From(content, pos)
        ELSE IF fb # 0
        THEN Before(content, fb) \o entry \o <<NL>> \o From(content, fb)
        ELSE content \o <<NL>> \o entry

add_idea_to_backlog(e, c, id, title, description, category, now) ==
    insert_idea_into_priority_queue(e, c, id, title, description, category, 0, "", "", now)

add_ai_idea_to_backlog(e, c, id, title, description, category, source, now) ==
    insert_idea_into_priority_queue(e, c, id, title, description, category, 0,
                                    "AI (" \o source \o ")", source, now)

-----------------------------------------------------------------------------
(* enrich_idea_in_backlog                                                  *)

\* (\n\n|- \*\*\[idea-|\n###|\n##) at index j of c
IsEnrichBoundary(c, j) ==
    \/ IsMarker(c[j])
    \/ /\ IsNL(c[j])
       /\ j + 1 <= Len(c)
       /\ (IsNL(c[j + 1]) \/ IsHeading(c[j + 1]))

FirstMarker(c, id) ==
    LET ms == {i \in 1..Len(c) : IsMarker(c[i]) /\ c[i].id = id}
    IN  IF ms = {} THEN 0 ELSE Min(ms)

EnrichBoundary(c, i) ==
    LET bs == {j \in (i + 1)..Len(c) : IsEnrichBoundary(c, j)}
    IN  IF bs = {} THEN 0 ELSE Min(bs)

\* the index up to which the block is kept before the new line is added:
\* the end of the block, or the end of its last annotation line
EnrichKeepTo(c, i, j) ==
    LET es == {q \in (i + 2)..(j - 1) : c[q].k = "enrich" /\ IsNL(c[q - 1])}
        eols == {q \in (Max(es) + 1)..(j - 1) : IsNL(c[q])}
    IN  IF es = {} THEN j
        ELSE IF eols = {} THEN j
        ELSE Min(eols)

enrich_idea_in_backlog_early(e, c, id, evidence, source, now) ==
    LET i == FirstMarker(c, id)
        j == IF i = 0 THEN 0 ELSE EnrichBoundary(c, i)
        line == <<NL, Tok("enrich", 0, evidence, source, now, 0)>>
    IN  IF ~e THEN [ok |-> FALSE, err |-> "no file", doc |-> c]
        ELSE IF i = 0 \/ j = 0 THEN [ok |-> FALSE, err |-> "not found", doc |-> c \o line]
        ELSE [ok |-> TRUE, err |-> "",
              doc |-> Before(c, EnrichKeepTo(c, i, j)) \o line \o From(c, j)]

enrich_idea_in_backlog(e, c, id, evidence, source, now) ==
    LET i == FirstMarker(c, id)
        j == IF i = 0 THEN 0 ELSE EnrichBoundary(c, i)
        line == <<NL, Tok("enrich", 0, evidence, source, now, 0)>>
    IN  IF ~e THEN [ok |-> FALSE, err |-> "no file", doc |-> c]
        ELSE IF i = 0 \/ j = 0 THEN [ok |-> FALSE, err |-> "not found", doc |-> c]
        ELSE [ok |-> TRUE, err |-> "",
              doc |-> Before(c, EnrichKeepTo(c, i, j)) \o line \o From(c, j)]

-----------------------------------------------------------------------------
(* mark_idea_implemented                                                   *)

\* end of .*?(?=\n-\s*\*\*\[idea-|\n###|\n##|$) from the marker c[i]: the
\* index of the first token after the block
MarkBlockEnd(c, i) ==
    LET ends == {q \in (i + 1)..Len(c) : IsBlockEnd(c, q)}
        eof == IF Len(c) > i /\ IsNL(c[Len(c)]) THEN Len(c) ELSE Len(c) + 1
    IN  Min(ends \cup {eof})

\* ## Archive \(Implemented\)\s*\n(?:\s*\*.*?\*\s*\n)? : index after the first
\* match, or 0
ArchiveInsertPos_low(c) == SectionInsertPos(c, "h3low")

ArchiveInsertPos(c) == SectionInsertPos(c, "h2arch")

ArchiveEntry(id, title, impl) == <<Marker(id, title, impl), NL>>

mark_idea_implemented_keep(e, c, id, impl, now) ==
    LET found == FirstWithId(parse_backlog_file(e, c, now), id)
        i == FirstMarker(c, id)
        entry == ArchiveEntry(id, found[1].title, impl)
        pos == ArchiveInsertPos(c)
    IN  IF ~e THEN [ok |-> FALSE, err |-> "no file", doc |-> c]
        ELSE IF found = <<>> THEN [ok |-> FALSE, err |-> "not found", doc |-> c]
        ELSE IF found[1].status = "implemented"
        THEN [ok |-> FALSE, err |-> "already implemented", doc |-> c]
        ELSE [ok |-> TRUE, err |-> "",
              doc |-> IF pos # 0
                      THEN Before(c, pos) \o <<NL>> \o entry \o From(c, pos)
                      ELSE c \o <<NL, Plain("h2arch"), NL, NL>> \o entry]

mark_idea_implemented(e, c, id, impl, now) ==
    LET found == FirstWithId(parse_backlog_file(e, c, now), id)
        i == FirstMarker(c, id)
        new_content == Before(c, i) \o From(c, MarkBlockEnd(c, i))
        entry == ArchiveEntry(id, found[1].title, impl)
        pos == ArchiveInsertPos(new_content)
    IN  IF ~e THEN [ok |-> FALSE, err |-> "no file", doc |-> c]
        ELSE IF found = <<>> THEN [ok |-> FALSE, err |-> "not found", doc |-> c]
        ELSE IF found[1].status = "implemented"
        THEN [ok |-> FALSE, err |-> "already implemented", doc |-> c]
        ELSE [ok |-> TRUE, err |-> "",
              doc |-> IF pos # 0
                      THEN Before(new_content, pos) \o <<NL>> \o entry
                           \o From(new_content, pos)
                      ELSE new_content \o <<NL, Plain("h2arch"), NL, NL>> \o entry]

-----------------------------------------------------------------------------
(* Sample texts.  Titles, descriptions and changelog features are drawn    *)
(* from these; the texts the program derives from them are built the way   *)
(* the program builds them.  A date inside a derived text is written       *)
(* <date>.                                                                 *)

TA == "Meeting prep assistant"
TB == "Meeting prep helper"
TC == "Meeting prep briefings"
DA == "Surface attendee context before meetings"
F1 == "Added support for memory hooks"
F2 == "Improved Windows IME support"
F3 == "New meeting prep assistant tool"

Titles == {TA, TB}
InsertTitles == {"", TA}
Scores == {0, 59, 60, 84, 85}
Descriptions == {DA}
CategoryInputs == {"ux", "bogus"}
Evidence == {"E1", "E2"}
Features == {F1, F2, F3}

ArchSuffix == " - *Implemented: <date>*"

\* what the substring tests of score_changelog_relevance,
\* infer_category_from_feature and generate_idea_title_from_feature find in
\* each sample feature: kw = number of DEX_RELEVANCE_KEYWORDS it contains
FeatureFacts ==
    F1 :> [kw |-> 3, added |-> TRUE, fixed |-> FALSE, ood |-> FALSE,
           stem |-> "support for memory hooks", category |-> "knowledge"] @@
    F2 :> [kw |-> 0, added |-> FALSE, fixed |-> TRUE, ood |-> TRUE,
           stem |-> "Improved Windows IME support", category |-> "system"] @@
    F3 :> [kw |-> 1, added |-> TRUE, fixed |-> FALSE, ood |-> FALSE,
           stem |-> "meeting prep assistant tool", category |-> "system"]

\* SequenceMatcher(None, a.lower(), b.lower()).ratio() of the sample texts, in
\* units of 1/10000, as difflib computes it (query first, existing text second)
SimTable ==
    <<"Meeting prep assistant", "Meeting prep helper">> :> 6341 @@
    <<"Meeting prep assistant", "Leverage: support for memory hooks">> :> 1429 @@
    <<"Meeting prep assistant", "Leverage: meeting prep assistant tool">> :> 7458 @@
    <<"Meeting prep assistant", "- **Score:** 0 (not yet ranked)">> :> 1839 @@
    <<"Meeting prep assistant", "Meeting prep assistant - *Implemented: <date>*">> :> 6111 @@
    <<"Meeting prep assistant", "Meeting prep helper - *Implemented: <date>*">> :> 4638 @@
    <<"Meeting prep assistant", "Leverage: support for memory hooks - *Implemented: <date>*">> :> 1429 @@
    <<"Meeting prep assistant", "Leverage: meeting prep assistant tool - *Implemented: <date>*">> :> 5057 @@
    <<"Meeting prep assistant", "- **Score:** 0 (not yet ranked) - *Implemented: <date>*">> :> 696 @@
    <<"Meeting prep helper", "Meeting prep assistant">> :> 6341 @@
    <<"Meeting prep helper", "Leverage: support for memory hooks">> :> 1887 @@
    <<"Meeting prep helper", "Leverage: meeting prep assistant tool">> :> 5000 @@
    <<"Meeting prep helper", "- **Score:** 0 (not yet ranked)">> :> 1667 @@
    <<"Meeting prep helper", "Meeting prep assistant - *Implemented: <date>*">> :> 4348 @@
    <<"Meeting prep helper", "Meeting prep helper - *Implemented: <date>*">> :> 5758 @@
    <<"Meeting prep helper", "Leverage: support for memory hooks - *Implemented: <date>*">> :> 1728 @@
    <<"Meeting prep helper", "Leverage: meeting prep assistant tool - *Implemented: <date>*">> :> 3571 @@
    <<"Meeting prep helper", "- **Score:** 0 (not yet ranked) - *Implemented: <date>*">> :> 714 @@
    <<"Surface attendee context before meetings", "Claude Code  (<date>) shipped: Added support for memory hooks. Evaluate how Dex could leverage this for user workflows.">> :> 2331 @@
    <<"Surface attendee context before meetings", "Claude Code  (<date>) shipped: New meeting prep assistant tool. Evaluate how Dex could leverage this for user workflows.">> :> 2073 @@
    <<"Added support for memory hooks", "Meeting prep assistant">> :> 1923 @@
    <<"Added support for memory hooks", "Meeting prep helper">> :> 2041 @@
    <<"Added support for memory hooks", "Leverage: support for memory hooks">> :> 8438 @@
    <<"Added support for memory hooks", "Leverage: meeting prep assistant tool">> :> 2687 @@
    <<"Added support for memory hooks", "- **Score:** 0 (not yet ranked)">> :> 1895 @@
    <<"Added support for memory hooks", "Meeting prep assistant - *Implemented: <date>*">> :> 1000 @@
    <<"Added support for memory hooks", "Meeting prep helper - *Implemented: <date>*">> :> 779 @@
    <<"Added support for memory hooks", "Leverage: support for memory hooks - *Implemented: <date>*">> :> 5870 @@
    <<"Added support for memory hooks", "Leverage: meeting prep assistant tool - *Implemented: <date>*">> :> 1895 @@
    <<"Added support for memory hooks", "- **Score:** 0 (not yet ranked) - *Implemented: <date>*">> :> 1463 @@
    <<"Added support for memory hooks", "Surface attendee context before meetings">> :> 4000 @@
    <<"Added support for memory hooks", "Claude Code  (<date>) shipped: Added support for memory hooks. Evaluate how Dex could leverage this for user workflows.">> :> 3922 @@
    <<"Added support for memory hooks", "Claude Code  (<date>) shipped: New meeting prep assistant tool. Evaluate how Dex could leverage this for user workflows.">> :> 2078 @@
    <<"New meeting prep assistant tool", "Meeting prep assistant">> :> 8302 @@
    <<"New meeting prep assistant tool", "Meeting prep helper">> :> 5600 @@
    <<"New meeting prep assistant tool", "Leverage: support for memory hooks">> :> 2154 @@
    <<"New meeting prep assistant tool", "Leverage: meeting prep assistant tool">> :> 8529 @@
    <<"New meeting prep assistant tool", "- **Score:** 0 (not yet ranked)">> :> 2500 @@
    <<"New meeting prep assistant tool", "Meeting prep assistant - *Implemented: <date>*">> :> 5926 @@
    <<"New meeting prep assistant tool", "Meeting prep helper - *Implemented: <date>*">> :> 4359 @@
    <<"New meeting prep assistant tool", "Leverage: support for memory hooks - *Implemented: <date>*">> :> 1935 @@
    <<"New meeting prep assistant tool", "Leverage: meeting prep assistant tool - *Implemented: <date>*">> :> 6042 @@
    <<"New meeting prep assistant tool", "- **Score:** 0 (not yet ranked) - *Implemented: <date>*">> :> 1935 @@
    <<"New meeting prep assistant tool", "Surface attendee context before meetings">> :> 3099 @@
    <<"New meeting prep assistant tool", "Claude Code  (<date>) shipped: Added support for memory hooks. Evaluate how Dex could leverage this for user workflows.">> :> 1818 @@
    <<"New meeting prep assistant tool", "Claude Code  (<date>) shipped: New meeting prep assistant tool. Evaluate how Dex could leverage this for user workflows.">> :> 4000 @@
    <<"Meeting prep assistant", "Meeting prep briefings">> :> 6364 @@
    <<"Meeting prep helper", "Meeting prep briefings">> :> 6829 @@
    <<"Meeting prep briefings", "Meeting prep helper">> :> 6829 @@
    <<"Meeting prep briefings", "Meeting prep assistant">> :> 6818 @@
    <<"Added support for memory hooks", "Fix: Calendar sync drops events">> :> 2295 @@
    <<"Added support for memory hooks", "Fix: Meeting prep assistant misses attendees">> :> 1892 @@
    <<"Added support for memory hooks", "From session learning (<date>): Two events were missing from the daily plan. Suggested fix: Retry the calendar fetch when the provider returns a partial page">> :> 1361 @@
    <<"Added support for memory hooks", "From session learning (<date>):  Suggested fix: Read attendees from the invite">> :> 1964 @@
    <<"New meeting prep assistant tool", "Fix: Calendar sync drops events">> :> 1613 @@
    <<"New meeting prep assistant tool", "Fix: Meeting prep assistant misses attendees">> :> 6667 @@
    <<"New meeting prep assistant tool", "From session learning (<date>): Two events were missing from the daily plan. Suggested fix: Retry the calendar fetch when the provider returns a partial page">> :> 1979 @@
    <<"New meeting prep assistant tool", "From session learning (<date>):  Suggested fix: Read attendees from the invite">> :> 2301 @@
    <<"Calendar sync drops events Retry the calendar fetch when the provider returns a partial page", "Meeting prep assistant">> :> 2105 @@
    <<"Calendar sync drops events Retry the calendar fetch when the provider returns a partial page", "Fix: Calendar sync drops events">> :> 4228 @@
    <<"Calendar sync drops events Retry the calendar fetch when the provider returns a partial page", "Leverage: support for memory hooks">> :> 2222 @@
    <<"Calendar sync drops events Retry the calendar fetch when the provider returns a partial page", "Leverage: meeting prep assistant tool">> :> 2636 @@
    <<"Calendar sync drops events Retry the calendar fetch when the provider returns a partial page", "Fix: Meeting prep assistant misses attendees">> :> 735 @@
    <<"Calendar sync drops events Retry the calendar fetch when the provider returns a partial page", "Surface attendee context before meetings">> :> 2424 @@
    <<"Calendar sync drops events Retry the calendar fetch when the provider returns a partial page", "Claude Code  (<date>) shipped: Added support for memory hooks. Evaluate how Dex could leverage this for user workflows.">> :> 2419 @@
    <<"Calendar sync drops events Retry the calendar fetch when the provider returns a partial page", "Claude Code  (<date>) shipped: New meeting prep assistant tool. Evaluate how Dex could leverage this for user workflows.">> :> 2593 @@
    <<"Calendar sync drops events Retry the calendar fetch when the provider returns a partial page", "From session learning (<date>): Two events were missing from the daily plan. Suggested fix: Retry the calendar fetch when the provider returns a partial page">> :> 6324 @@
    <<"Calendar sync drops events Retry the calendar fetch when the provider returns a partial page", "From session learning (<date>):  Suggested fix: Read attendees from the invite">> :> 1839 @@
    <<"Slow vault search on large folders ", "Meeting prep assistant">> :> 1053 @@
    <<"Slow vault search on large folders ", "Fix: Calendar sync drops events">> :> 2424 @@
    <<"Slow vault search on large folders ", "Leverage: support for memory hooks">> :> 3478 @@
    <<"Slow vault search on large folders ", "Leverage: meeting prep assistant tool">> :> 1944 @@
    <<"Slow vault search on large folders ", "Fix: Meeting prep assistant misses attendees">> :> 2785 @@
    <<"Slow vault search on large folders ", "Surface attendee context before meetings">> :> 2667 @@
    <<"Slow vault search on large folders ", "Claude Code  (<date>) shipped: Added support for memory hooks. Evaluate how Dex could leverage this for user workflows.">> :> 633 @@
    <<"Slow vault search on large folders ", "Claude Code  (<date>) shipped: New meeting prep assistant tool. Evaluate how Dex could leverage this for user workflows.">> :> 629 @@
    <<"Slow vault search on large folders ", "From session learning (<date>): Two events were missing from the daily plan. Suggested fix: Retry the calendar fetch when the provider returns a partial page">> :> 2041 @@
    <<"Slow vault search on large folders ", "From session learning (<date>):  Suggested fix: Read attendees from the invite">> :> 3077 @@
    <<"Meeting prep assistant misses attendees Read attendees from the invite", "Meeting prep assistant">> :> 4783 @@
    <<"Meeting prep assistant misses attendees Read attendees from the invite", "Fix: Calendar sync drops events">> :> 2376 @@
    <<"Meeting prep assistant misses attendees Read attendees from the invite", "Leverage: support for memory hooks">> :> 769 @@
    <<"Meeting prep assistant misses attendees Read attendees from the invite", "Leverage: meeting prep assistant tool">> :> 4673 @@
    <<"Meeting prep assistant misses attendees Read attendees from the invite", "Fix: Meeting prep assistant misses attendees">> :> 6842 @@
    <<"Meeting prep assistant misses attendees Read attendees from the invite", "Surface attendee context before meetings">> :> 3455 @@
    <<"Meeting prep assistant misses attendees Read attendees from the invite", "Claude Code  (<date>) shipped: Added support for memory hooks. Evaluate how Dex could leverage this for user workflows.">> :> 1969 @@
    <<"Meeting prep assistant misses attendees Read attendees from the invite", "Claude Code  (<date>) shipped: New meeting prep assistant tool. Evaluate how Dex could leverage this for user workflows.">> :> 4021 @@
    <<"Meeting prep assistant misses attendees Read attendees from the invite", "From session learning (<date>): Two events were missing from the daily plan. Suggested fix: Retry the calendar fetch when the provider returns a partial page">> :> 2684 @@
    <<"Meeting prep assistant misses attendees Read attendees from the invite", "From session learning (<date>):  Suggested fix: Read attendees from the invite">> :> 5658 @@
    <<"Meeting prep assistant", "Fix: Calendar sync drops events">> :> 1887 @@
    <<"Meeting prep assistant", "Fix: Meeting prep assistant misses attendees">> :> 6667 @@
    <<"Fix: Calendar sync drops events", "Meeting prep assistant">> :> 2264 @@
    <<"Fix: Calendar sync drops events", "Leverage: support for memory hooks">> :> 1846 @@
    <<"Fix: Calendar sync drops events", "Leverage: meeting prep assistant tool">> :> 1765 @@
    <<"Fix: Calendar sync drops events", "Fix: Meeting prep assistant misses attendees">> :> 2667 @@
    <<"Leverage: support for memory hooks", "Meeting prep assistant">> :> 1786 @@
    <<"Leverage: support for memory hooks", "Fix: Calendar sync drops events">> :> 1538 @@
    <<"Leverage: support for memory hooks", "Leverage: meeting prep assistant tool">> :> 4225 @@
    <<"Leverage: support for memory hooks", "Fix: Meeting prep assistant misses attendees">> :> 1795 @@
    <<"Leverage: meeting prep assistant tool", "Meeting prep assistant">> :> 7458 @@
    <<"Leverage: meeting prep assistant tool", "Fix: Calendar sync drops events">> :> 1765 @@
    <<"Leverage: meeting prep assistant tool", "Leverage: support for memory hooks">> :> 4225 @@
    <<"Leverage: meeting prep assistant tool", "Fix: Meeting prep assistant misses attendees">> :> 6420 @@
    <<"Fix: Meeting prep assistant misses attendees", "Meeting prep assistant">> :> 6667 @@
    <<"Fix: Meeting prep assistant misses attendees", "Fix: Calendar sync drops events">> :> 3200 @@
    <<"Fix: Meeting prep assistant misses attendees", "Leverage: support for memory hooks">> :> 1538 @@
    <<"Fix: Meeting prep assistant misses attendees", "Leverage: meeting prep assistant tool">> :> 6420 @@
    <<"Surface attendee context before meetings", "From session learning (<date>): Two events were missing from the daily plan. Suggested fix: Retry the calendar fetch when the provider returns a partial page">> :> 1393 @@
    <<"Surface attendee context before meetings", "From session learning (<date>):  Suggested fix: Read attendees from the invite">> :> 2951 @@
    <<"Claude Code  (<date>) shipped: Added support for memory hooks. Evaluate how Dex could leverage this for user workflows.", "Surface attendee context before meetings">> :> 2086 @@
    <<"Claude Code  (<date>) shipped: Added support for memory hooks. Evaluate how Dex could leverage this for user workflows.", "Claude Code  (<date>) shipped: New meeting prep assistant tool. Evaluate how Dex could leverage this for user workflows.">> :> 8178 @@
    <<"Claude Code  (<date>) shipped: Added support for memory hooks. Evaluate how Dex could leverage this for user workflows.", "From session learning (<date>): Two events were missing from the daily plan. Suggested fix: Retry the calendar fetch when the provider returns a partial page">> :> 3099 @@
    <<"Claude Code  (<date>) shipped: Added support for memory hooks. Evaluate how Dex could leverage this for user workflows.", "From session learning (<date>):  Suggested fix: Read attendees from the invite">> :> 3024 @@
    <<"Claude Code  (<date>) shipped: New meeting prep assistant tool. Evaluate how Dex could leverage this for user workflows.", "Surface attendee context before meetings">> :> 2439 @@
    <<"Claude Code  (<date>) shipped: New meeting prep assistant tool. Evaluate how Dex could leverage this for user workflows.", "Claude Code  (<date>) shipped: Added support for memory hooks. Evaluate how Dex could leverage this for user workflows.">> :> 8097 @@
    <<"Claude Code  (<date>) shipped: New meeting prep assistant tool. Evaluate how Dex could leverage this for user workflows.", "From session learning (<date>): Two events were missing from the daily plan. Suggested fix: Retry the calendar fetch when the provider returns a partial page">> :> 2596 @@
    <<"Claude Code  (<date>) shipped: New meeting prep assistant tool. Evaluate how Dex could leverage this for user workflows.", "From session learning (<date>):  Suggested fix: Read attendees from the invite">> :> 3107 @@
    <<"From session learning (<date>): Two events were missing from the daily plan. Suggested fix: Retry the calendar fetch when the provider returns a partial page", "Surface attendee context before meetings">> :> 1592 @@
    <<"From session learning (<date>): Two events were missing from the daily plan. Suggested fix: Retry the calendar fetch when the provider returns a partial page", "Claude Code  (<date>) shipped: Added support for memory hooks. Evaluate how Dex could leverage this for user workflows.">> :> 2958 @@
    <<"From session learning (<date>): Two events were missing from the daily plan. Suggested fix: Retry the calendar fetch when the provider returns a partial page", "Claude Code  (<date>) shipped: New meeting prep assistant tool. Evaluate how Dex could leverage this for user workflows.">> :> 2807 @@
    <<"From session learning (<date>): Two events were missing from the daily plan. Suggested fix: Retry the calendar fetch when the provider returns a partial page", "From session learning (<date>):  Suggested fix: Read attendees from the invite">> :> 5350 @@
    <<"From session learning (<date>):  Suggested fix: Read attendees from the invite", "Surface attendee context before meetings">> :> 3115 @@
    <<"From session learning (<date>):  Suggested fix: Read attendees from the invite", "Claude Code  (<date>) shipped: Added support for memory hooks. Evaluate how Dex could leverage this for user workflows.">> :> 2829 @@
    <<"From session learning (<date>):  Suggested fix: Read attendees from the invite", "Claude Code  (<date>) shipped: New meeting prep assistant tool. Evaluate how Dex could leverage this for user workflows.">> :> 2816 @@
    <<"From session learning (<date>):  Suggested fix: Read attendees from the invite", "From session learning (<date>): Two events were missing from the daily plan. Suggested fix: Retry the calendar fetch when the provider returns a partial page">> :> 5432 @@
    <<"Meeting prep assistant", "Show dates in the Archive (Implemented) section">> :> 1739 @@
    <<"Meeting prep assistant", "Show dates in the Archive (Implemented) section - *Implemented: <date>*">> :> 2268 @@
    <<"Meeting prep assistant", "Surface attendee context before meetings">> :> 2581 @@
    <<"Meeting prep assistant", "Claude Code  (<date>) shipped: Added support for memory hooks. Evaluate how Dex could leverage this for user workflows.">> :> 1103 @@
    <<"Show dates in the Archive (Implemented) section", "Meeting prep assistant">> :> 2899 @@
    <<"Show dates in the Archive (Implemented) section", "Meeting prep helper">> :> 2121 @@
    <<"Show dates in the Archive (Implemented) section", "Leverage: support for memory hooks">> :> 988 @@
    <<"Show dates in the Archive (Implemented) section", "Meeting prep assistant - *Implemented: <date>*">> :> 4330 @@
    <<"Show dates in the Archive (Implemented) section", "Meeting prep helper - *Implemented: <date>*">> :> 4255 @@
    <<"Show dates in the Archive (Implemented) section", "Show dates in the Archive (Implemented) section - *Implemented: <date>*">> :> 7705 @@
    <<"Show dates in the Archive (Implemented) section", "Leverage: support for memory hooks - *Implemented: <date>*">> :> 3303 @@
    <<"Show dates in the Archive (Implemented) section", "Surface attendee context before meetings">> :> 3448 @@
    <<"Show dates in the Archive (Implemented) section", "Claude Code  (<date>) shipped: Added support for memory hooks. Evaluate how Dex could leverage this for user workflows.">> :> 2000 @@
    <<"Added support for memory hooks", "Show dates in the Archive (Implemented) section">> :> 1558 @@
    <<"Added support for memory hooks", "Show dates in the Archive (Implemented) section - *Implemented: <date>*">> :> 1714

calculate_similarity(a, b) ==
    IF a = b THEN 10000
    ELSE IF a = "" \/ b = "" THEN 0
    ELSE SimTable[<<a, b>>]

\* the title text parse_backlog_file reports, archive suffix included
TitleText(title) == IF title.d = 0 THEN title.s ELSE title.s \o ArchSuffix

-----------------------------------------------------------------------------
(* find_similar_ideas                                                      *)

\* stable sort of q, descending in key (key[k] is the sort key of q[k]):
\* list.sort(key=..., reverse=True)
RECURSIVE SortDesc(_, _)
SortDesc(q, key) ==
    IF q = <<>> THEN <<>>
    ELSE LET m == Max({key[k] : k \in 1..Len(q)})
             k0 == Min({k \in 1..Len(q) : key[k] = m})
             Drop(x) == SubSeq(x, 1, k0 - 1) \o SubSeq(x, k0 + 1, Len(x))
         IN  <<q[k0]>> \o SortDesc(Drop(q), Drop(key))

\* (title_similarity * 0.6) + (desc_similarity * 0.25) + qmd_boost, in units
\* of 1/1000000; boosted = the titles some snippet of the semantic search
\* matches (empty when the search is not available)
CombinedScore(idea, title, description, boosted) ==
    60 * calculate_similarity(title, TitleText(idea.title))
    + 25 * calculate_similarity(description, idea.description)
    + (IF TitleText(idea.title) \in boosted THEN 150000 ELSE 0)

\* round(similarity_score, 2), in hundredths
Round2(s6) == (s6 + 5000) \div 10000

SimilarThreshold == 500000

RECURSIVE SimilarFrom(_, _, _, _, _)
SimilarFrom(ideas, k, title, description, boosted) ==
    IF k > Len(ideas) THEN <<>>
    ELSE LET sc == CombinedScore(ideas[k], title, description, boosted)
         IN  (IF sc >= SimilarThreshold
              THEN <<[id |-> ideas[k].id, title |-> ideas[k].title,
                      similarity |-> Round2(sc),
                      semantic_match |-> TitleText(ideas[k].title) \in boosted]>>
              ELSE <<>>)
             \o SimilarFrom(ideas, k + 1, title, description, boosted)

find_similar_ideas(e, c, title, description, boosted, now) ==
    IF ~e THEN <<>>
    ELSE LET found == SimilarFrom(parse_backlog_file(e, c, now), 1,
                                  title, description, boosted)
             all == SortDesc(found, [k \in 1..Len(found) |-> found[k].similarity])
         IN  SubSeq(all, 1, IF Len(all) < 3 THEN Len(all) ELSE 3)

-----------------------------------------------------------------------------
(* Changelog synthesis: pure parts                                         *)

RelevanceFloor == 20
TopN == 15
EnrichBar == 4000

score_changelog_relevance(f) ==
    LET x == FeatureFacts[f]
        score == 15 * x.kw + (IF x.added THEN 10 ELSE 0) + (IF x.fixed THEN 5 ELSE 0)
                 - (IF x.ood THEN 20 ELSE 0)
    IN  IF score < 100 THEN score ELSE 100

infer_category_from_feature(f) == FeatureFacts[f].category

generate_idea_title_from_feature(f) == "Leverage: " \o FeatureFacts[f].stem

AIDescription(f) ==
    "Claude Code  (<date>) shipped: " \o f
    \o ". Evaluate how Dex could leverage this for user workflows."

\* the bullet lines of the changelog dated since_date or later, in file order
RECURSIVE parse_changelog_entries(_, _)
parse_changelog_entries(log, since_date) ==
    IF log = <<>> THEN <<>>
    ELSE (IF log[1].date < since_date THEN <<>> ELSE <<log[1]>>)
         \o parse_changelog_entries(Tail(log), since_date)

RECURSIVE RelevantOf(_)
RelevantOf(entries) ==
    IF entries = <<>> THEN <<>>
    ELSE (IF score_changelog_relevance(entries[1].feature) >= RelevanceFloor
          THEN <<[date |-> entries[1].date, feature |-> entries[1].feature,
                  relevance |-> score_changelog_relevance(entries[1].feature)]>>
          ELSE <<>>)
         \o RelevantOf(Tail(entries))

\* relevant_entries cut to 15 in file order
RelevantEntries_unsorted(entries) == SubSeq(RelevantOf(entries), 1, IF Len(RelevantOf(entries)) < TopN THEN Len(RelevantOf(entries)) ELSE TopN)

\* relevant_entries: filtered, sorted by relevance (descending, stable), cut
RelevantEntries(entries) ==
    LET found == RelevantOf(entries)
        all == SortDesc(found, [k \in 1..Len(found) |-> found[k].relevance])
    IN  SubSeq(all, 1, IF Len(all) < TopN THEN Len(all) ELSE TopN)

\* max(title_sim, desc_sim) of a feature against one idea of the pool
PoolSim(f, idea) ==
    Max({calculate_similarity(f, idea.title), calculate_similarity(f, idea.description)})

\* best_match: index of the first idea of the pool whose similarity is the
\* largest, 0 when the pool is empty or no similarity is positive
BestMatch(pool, f) ==
    LET sims == {PoolSim(f, pool[k]) : k \in 1..Len(pool)}
    IN  IF pool = <<>> \/ Max(sims \cup {0}) = 0 THEN 0
        ELSE Min({k \in 1..Len(pool) : PoolSim(f, pool[k]) = Max(sims)})

RECURSIVE PoolOf(_)
PoolOf(ideas) ==
    IF ideas = <<>> THEN <<>>
    ELSE <<[id |-> ideas[1].id, title |-> TitleText(ideas[1].title),
            description |-> ideas[1].description]>> \o PoolOf(Tail(ideas))

\* existing_ideas.append({"id": ..., "title": ..., "description": ...})
PoolWith_stale(pool, id, title, description) == pool

PoolWith(pool, id, title, description) == Append(pool, [id |-> id, title |-> title, description |-> description])

\* the loop over relevant_entries, from entry k on; st holds the file, the
\* pool existing_ideas, the counters and the ids handed out
RECURSIVE SynthLoop(_, _, _, _)
SynthLoop(entries, k, st, now) ==
    IF k > Len(entries) THEN st
    ELSE LET f == entries[k].feature
             b == BestMatch(st.pool, f)
             r == enrich_idea_in_backlog(st.e, st.c, st.pool[b].id,
                                         "Claude Code  (<date>): " \o f,
                                         "Anthropic Changelog ", now)
             id == generate_idea_id(st.e, st.c)
             title == generate_idea_title_from_feature(f)
         IN  IF b # 0 /\ PoolSim(f, st.pool[b]) > EnrichBar
             THEN SynthLoop(entries, k + 1,
                            [st EXCEPT !.c = r.doc,
                                       !.enriched = @ + (IF r.ok THEN 1 ELSE 0)], now)
             ELSE SynthLoop(entries, k + 1,
                            [st EXCEPT
                               !.e = TRUE,
                               !.c = add_ai_idea_to_backlog(st.e, st.c, id, title,
                                         AIDescription(f), infer_category_from_feature(f),
                                         "Anthropic Changelog Synthesis", now),
                               !.created = @ + 1,
                               !.ids = Append(@, id),
                               !.pool = PoolWith(@, id, title, AIDescription(f))],
                            now)

DefaultState ==
    [file |-> "absent", last_changelog_synthesis |-> 0,
     last_learnings_synthesis |-> 0, synthesis_history |-> <<>>]

\* what load_synthesis_state returns
load_synthesis_state(s) == IF s.file = "ok" THEN s ELSE DefaultState

-----------------------------------------------------------------------------
(* The tool calls.  Each action is one call of handle_call_tool; res        *)
(* records the call and its JSON result.                                    *)

NoRes ==
    [op |-> "none", ok |-> TRUE, err |-> "", id |-> 0, similar |-> <<>>,
     scanned |-> 0, relevant |-> 0, created |-> 0, enriched |-> 0]

DaysBack == {30}
ImplDates == {0}
Source == "note"

MarkerIds(c) == {c[i].id : i \in {j \in 1..Len(c) : IsMarker(c[j])}}

\* the ideas a call can name: those of the file and one that is not there
IdInputs == MarkerIds(doc) \cup {Max(MarkerIds(doc) \cup {0}) + 1}

\* the sets of titles the semantic search can flag: none (also when the search
\* is not installed) or all
BoostInputs ==
    LET ideas == parse_backlog_file(exists, doc, today)
    IN  {{}, {TitleText(ideas[k].title) : k \in 1..Len(ideas)}}

\* the program does not look into an annotation text: the first enrich_idea
\* call carries E1, the later ones E2
NextEvidence ==
    IF \E i \in 1..Len(doc) : doc[i].k = "enrich" /\ doc[i].s = "E1" THEN "E2" ELSE "E1"

EnrichCount(c) == Cardinality({i \in 1..Len(c) : c[i].k = "enrich"})

\* capture_idea
CaptureIdea(title, description, category, boosted) ==
    LET similar == find_similar_ideas(exists, doc, title, description, boosted, today)
        id == generate_idea_id(exists, doc)
        call == [NoRes EXCEPT !.op = "capture_idea"]
    IN  IF category \notin CATEGORIES
        THEN /\ res' = [call EXCEPT !.ok = FALSE, !.err = "invalid category"]
             /\ UNCHANGED <<ext, exists, doc, today, changelog, state, assigned>>
        ELSE IF similar # <<>> /\ similar[1].similarity > 75
        THEN /\ res' = [call EXCEPT !.ok = FALSE, !.err = "duplicate",
                                    !.similar = similar]
             /\ UNCHANGED <<ext, exists, doc, today, changelog, state, assigned>>
        ELSE /\ Len(assigned) < MaxIdeas
             /\ doc' = add_idea_to_backlog(exists, doc, id, title, description,
                                           category, today)
             /\ exists' = TRUE
             /\ assigned' = Append(assigned, id)
             /\ res' = [call EXCEPT !.id = id]
             /\ UNCHANGED <<ext, today, changelog, state>>

\* enrich_idea
EnrichIdea(id, evidence) ==
    LET r == enrich_idea_in_backlog(exists, doc, id, evidence, Source, today)
    IN  /\ doc' = r.doc
        /\ res' = [NoRes EXCEPT !.op = "enrich_idea", !.id = id, !.ok = r.ok,
                                !.err = r.err]
        /\ UNCHANGED <<ext, exists, today, changelog, state, assigned>>

\* mark_implemented; impl = 0 stands for a call without implementation_date
MarkImplemented(id, impl) ==
    LET r == mark_idea_implemented(exists, doc, id,
                                   IF impl = 0 THEN today ELSE impl, today)
    IN  /\ doc' = r.doc
        /\ res' = [NoRes EXCEPT !.op = "mark_implemented", !.id = id,
                                !.ok = r.ok, !.err = r.err]
        /\ UNCHANGED <<ext, exists, today, changelog, state, assigned>>

\* synthesize_changelog; the run is taken when it leaves at most ideas_cap
\* entries handed out and at most enrich_cap annotations in the document
SynthesizeChangelogUpTo(days_back, ideas_cap, enrich_cap) ==
    LET st == load_synthesis_state(state)
        last == st.last_changelog_synthesis
        since_date == IF last # 0 THEN Max({today - days_back, last})
                      ELSE today - days_back
        entries == parse_changelog_entries(changelog, since_date)
        relevant == RelevantEntries(entries)
        ideas == parse_backlog_file(exists, doc, today)
        out == SynthLoop(relevant, 1,
                         [e |-> exists, c |-> doc, pool |-> PoolOf(ideas),
                          created |-> 0, enriched |-> 0, ids |-> <<>>], today)
        call == [NoRes EXCEPT !.op = "synthesize_changelog"]
    IN  IF entries = <<>>
        THEN /\ res' = call
             /\ UNCHANGED <<ext, exists, doc, today, changelog, state, assigned>>
        ELSE /\ Len(st.synthesis_history) < MaxRuns
             /\ Len(assigned) + Len(out.ids) <= ideas_cap
             /\ EnrichCount(out.c) <= enrich_cap
             /\ exists' = out.e
             /\ doc' = out.c
             /\ assigned' = assigned \o out.ids
             /\ state' = [st EXCEPT
                            !.file = "ok",
                            !.last_changelog_synthesis = today,
                            !.synthesis_history =
                                Append(@, [type |-> "changelog", date |-> today,
                                           scanned |-> Len(entries),
                                           relevant |-> Len(relevant),
                                           created |-> out.created,
                                           enriched |-> out.enriched])]
             /\ res' = [call EXCEPT !.scanned = Len(entries),
                                    !.relevant = Len(relevant),
                                    !.created = out.created,
                                    !.enriched = out.enriched]
             /\ UNCHANGED <<ext, today, changelog>>

SynthesizeChangelog(days_back) == SynthesizeChangelogUpTo(days_back, MaxIdeas, MaxEnrich)

\* a day passes
Tick ==
    /\ today < MaxDay
    /\ today' = today + 1
    /\ UNCHANGED <<ext, exists, doc, changelog, state, assigned, res>>

-----------------------------------------------------------------------------
(* The server started on a vault that has no backlog file and no synthesis *)
(* state file; the changelog is any file of at most MaxLog bullet lines.   *)

LogLines == [date : 1..MaxDay, feature : Features]

Changelogs == UNION {[1..n -> LogLines] : n \in 0..MaxLog}

Init ==
    /\ exists = FALSE
    /\ doc = <<>>
    /\ today = 1
    /\ changelog \in Changelogs
    /\ state = DefaultState
    /\ assigned = <<>>
    /\ res = NoRes
    /\ ExtInit

Next ==
    \/ \E title \in {TA}, description \in Descriptions,
          category \in CategoryInputs, boosted \in BoostInputs :
          CaptureIdea(title, description, category, boosted)
    \/ \E id \in IdInputs : EnrichCount(doc) < MaxEnrich /\ EnrichIdea(id, NextEvidence)
    \/ \E id \in IdInputs, impl \in ImplDates : MarkImplemented(id, impl)
    \/ \E days_back \in DaysBack : SynthesizeChangelog(days_back)
    \/ Tick

Spec == Init /\ [][Next]_vars

-----------------------------------------------------------------------------
(* The backlog tools alone, on one day and without a changelog, with two   *)
(* similar titles and up to MaxAnnotations annotations.                    *)

InitBacklog ==
    /\ exists = FALSE
    /\ doc = <<>>
    /\ today = 1
    /\ changelog = <<>>
    /\ state = DefaultState
    /\ assigned = <<>>
    /\ res = NoRes
    /\ ExtInit

NextBacklog ==
    \/ \E title \in Titles, description \in Descriptions,
          category \in CategoryInputs, boosted \in BoostInputs :
          CaptureIdea(title, description, category, boosted)
    \/ \E id \in IdInputs :
          EnrichCount(doc) < MaxAnnotations /\ EnrichIdea(id, NextEvidence)
    \/ \E id \in IdInputs, impl \in ImplDates : MarkImplemented(id, impl)

SpecBacklog == InitBacklog /\ [][NextBacklog]_vars

-----------------------------------------------------------------------------
(* The server started on a backlog that already holds the idea with the    *)
(* last three-digit id (the state after LastId successful captures and     *)
(* nothing else, but for the entries in between).                          *)

LastId == 10 ^ 3 - 1

InitHighIds ==
    /\ exists = TRUE
    /\ doc = add_idea_to_backlog(FALSE, <<>>, LastId, TB, DA, "ux", 1)
    /\ today = 1
    /\ changelog \in Changelogs
    /\ state = DefaultState
    /\ assigned = <<>>
    /\ res = NoRes
    /\ ExtInit

NextHighIds ==
    \/ \E title \in {TA}, description \in Descriptions,
          category \in CategoryInputs, boosted \in BoostInputs :
          CaptureIdea(title, description, category, boosted)
    \/ \E id \in IdInputs, impl \in ImplDates : MarkImplemented(id, impl)
    \/ \E days_back \in DaysBack : SynthesizeChangelog(days_back)

SpecHighIds == InitHighIds /\ [][NextHighIds]_vars

-----------------------------------------------------------------------------
(* insert_idea_into_priority_queue applied, with any score, to the files   *)
(* it can find: none, the template, and the template after its owner       *)
(* removed the placeholder lines or the Medium heading.                    *)

NotItalic(t) == t.k # "it"
NotMedium(t) == t.k # "h3med"

Documents ==
    {[e |-> FALSE, c |-> <<>>],
     [e |-> TRUE, c |-> Template],
     [e |-> TRUE, c |-> SelectSeq(Template, NotItalic)],
     [e |-> TRUE, c |-> SelectSeq(Template, NotMedium)]}

InsertIdea(title, description, category, score) ==
    LET id == generate_idea_id(exists, doc)
    IN  /\ Len(assigned) < MaxIdeas
        /\ doc' = insert_idea_into_priority_queue(exists, doc, id, title, description,
                                                  category, score, "", "", today)
        /\ exists' = TRUE
        /\ assigned' = Append(assigned, id)
        /\ res' = [op |-> "insert", ok |-> TRUE, err |-> "", id |-> id,
                   title |-> title, category |-> category, score |-> score,
                   captured |-> today]
        /\ UNCHANGED <<ext, today, changelog, state>>

InitDocs ==
    /\ \E d \in Documents : exists = d.e /\ doc = d.c
    /\ today \in 1..MaxDay
    /\ changelog = <<>>
    /\ state = DefaultState
    /\ assigned = <<>>
    /\ res = NoRes
    /\ ExtInit

NextDocs ==
    \E title \in InsertTitles, description \in Descriptions,
       category \in {"ux", "tasks"}, score \in Scores :
       InsertIdea(title, description, category, score)

SpecDocs == InitDocs /\ [][NextDocs]_vars

-----------------------------------------------------------------------------
(* Properties.                                                             *)

MarkersOf(c, id) == {i \in 1..Len(c) : IsMarker(c[i]) /\ c[i].id = id}

\* the kind of the last heading above index i ("none" when there is none)
SectionOf(c, i) ==
    LET hs == {h \in 1..(i - 1) : IsHeading(c[h])}
    IN  IF hs = {} THEN "none" ELSE c[Max(hs)].k

PrioritySections == {"h3high", "h3med", "h3low"}

OnceUnderArchive(c, id) ==
    /\ Cardinality(MarkersOf(c, id)) = 1
    /\ \A i \in MarkersOf(c, id) : SectionOf(c, i) = "h2arch"

NoRepeat(q) == \A a, b \in 1..Len(q) : a # b => q[a] # q[b]

\* C1: no two entries of the backlog carry the same idea id, and no id is
\* handed out twice to created ideas.
C1_IdsUnique ==
    /\ \A id \in MarkerIds(doc) : Cardinality(MarkersOf(doc, id)) = 1
    /\ NoRepeat(assigned)

\* C2: generate_idea_id returns the largest id of the document plus one (1
\* without a document or without ids), and the result has three digits, so
\* that it matches idea-\d{3}.
C2_NextIdFormat ==
    LET n == generate_idea_id(exists, doc)
    IN  /\ MatchesIdPattern(n)
        /\ n = (IF ~exists \/ MarkerIds(doc) = {} THEN 1 ELSE Max(MarkerIds(doc)) + 1)

IsActive(id) ==
    LET found == FirstWithId(parse_backlog_file(exists, doc, today), id)
    IN  found # <<>> /\ found[1].status = "active"

\* C3: mark_implemented on an active idea succeeds and leaves the id exactly
\* once in the document, under Archive; a second mark_implemented on the same
\* id directly after fails with "already implemented" and leaves the document
\* as it was, the id still exactly once under Archive.
C3_MarkTwice ==
    [][\A id \in IdInputs, impl \in ImplDates :
         MarkImplemented(id, impl) =>
            /\ IsActive(id) => res'.ok /\ OnceUnderArchive(doc', id)
            /\ (res.op = "mark_implemented" /\ res.ok /\ res.id = id) =>
                  /\ ~res'.ok
                  /\ res'.err = "already implemented"
                  /\ doc' = doc
                  /\ OnceUnderArchive(doc', id)]_vars

\* C3 witness: a mark_implemented call was refused because the idea, once
\* under Archive, was implemented already.
C3_Witness ==
    /\ res.op = "mark_implemented"
    /\ res.err = "already implemented"
    /\ OnceUnderArchive(doc, res.id)

\* index after the block of the entry at c[i]: the next marker or heading
BlockEndOf(c, i) ==
    Min({q \in (i + 1)..Len(c) : IsMarker(c[q]) \/ IsHeading(c[q])} \cup {Len(c) + 1})

AnnotationsIn(c, lo, hi, evidence) ==
    {q \in lo..hi : c[q].k = "enrich" /\ c[q].s = evidence}

\* C4: an enrich_idea call with E2 directly after the successful enrich_idea
\* call with E1 on the same idea leaves both annotations in the block of the
\* idea, E1 above E2, E1 neither removed nor copied, and the title and the
\* score parse_backlog_file reports for the idea as they were.
C4_AppendOnly ==
    [][\A id \in IdInputs :
         (/\ res.op = "enrich_idea" /\ res.ok /\ res.id = id
          /\ AnnotationsIn(doc, 1, Len(doc), "E1") # {}
          /\ EnrichIdea(id, "E2")
          /\ res'.ok) =>
            LET i == FirstMarker(doc', id)
                hi == BlockEndOf(doc', i) - 1
                e1 == AnnotationsIn(doc', i, hi, "E1")
                e2 == AnnotationsIn(doc', i, hi, "E2")
                was == FirstWithId(parse_backlog_file(exists, doc, today), id)
                is == FirstWithId(parse_backlog_file(exists', doc', today'), id)
            IN  /\ e1 # {} /\ e2 # {}
                /\ Max(e1) < Min(e2)
                /\ Cardinality(AnnotationsIn(doc', 1, Len(doc'), "E1")) = 1
                /\ was # <<>> /\ is # <<>>
                /\ is[1].title = was[1].title
                /\ is[1].score = was[1].score]_vars

\* C5: every idea parse_backlog_file reports has one entry in the document;
\* an active idea lies under one of the three priority headings and an
\* implemented idea under the Archive heading.
C5_OnePlace ==
    LET ideas == parse_backlog_file(exists, doc, today)
    IN  \A k \in 1..Len(ideas) :
           /\ Cardinality(MarkersOf(doc, ideas[k].id)) = 1
           /\ ideas[k].status = "active" => SectionOf(doc, ideas[k].at) \in PrioritySections
           /\ ideas[k].status = "implemented" => SectionOf(doc, ideas[k].at) = "h2arch"

\* C5 witness: one idea is active under a priority heading and another one
\* lies under Archive.
C5_Witness ==
    LET ideas == parse_backlog_file(exists, doc, today)
    IN  /\ \E k \in 1..Len(ideas) :
              ideas[k].status = "active" /\ SectionOf(doc, ideas[k].at) = "h3low"
        /\ \E k \in 1..Len(ideas) :
              ideas[k].status = "implemented" /\ SectionOf(doc, ideas[k].at) = "h2arch"
        /\ state.synthesis_history # <<>>

\* C6: after insert_idea_into_priority_queue, parse_backlog_file (on any later
\* day) reports an idea with the inserted id whose title, category, score and
\* captured date are the inserted ones.
C6_RoundTrip ==
    res.op = "insert" =>
        LET ideas == parse_backlog_file(exists, doc, today + 1)
        IN  \E k \in 1..Len(ideas) :
               /\ ideas[k].id = res.id
               /\ TitleText(ideas[k].title) = res.title
               /\ ideas[k].category = res.category
               /\ ideas[k].score = res.score
               /\ ideas[k].captured = res.captured

HeadingsPresent(c) == \A k \in PrioritySections : \E h \in 1..Len(c) : c[h].k = k

\* C7: with the three priority headings present, the inserted entry follows
\* the heading High (score >= 85), Medium (60..84) or Low (below 60) with
\* nothing in between but blank lines and at most one italic placeholder line.
C7_SectionRouting ==
    (res.op = "insert" /\ HeadingsPresent(doc)) =>
        LET want == IF res.score >= 85 THEN "h3high"
                    ELSE IF res.score >= 60 /\ res.score <= 84 THEN "h3med"
                    ELSE "h3low"
            h == Min({q \in 1..Len(doc) : doc[q].k = want})
            i == Min(MarkersOf(doc, res.id))
        IN  /\ h < i
            /\ \A q \in (h + 1)..(i - 1) : IsNL(doc[q]) \/ doc[q].k = "it"
            /\ Cardinality({q \in (h + 1)..(i - 1) : doc[q].k = "it"}) <= 1

\* C7 witness: an idea of score 84 was inserted under the Medium heading of a
\* document that has the three headings, below an earlier entry of score 85
\* under High.
C7_Witness ==
    /\ res.op = "insert" /\ res.score = 84
    /\ HeadingsPresent(doc)
    /\ SectionOf(doc, Min(MarkersOf(doc, res.id))) = "h3med"
    /\ \E i \in 1..Len(doc) : IsMarker(doc[i]) /\ SectionOf(doc, i) = "h3high"

\* C8: a synthesize_changelog call that follows a synthesize_changelog call,
\* the changelog being the same, creates no idea, enriches none and leaves
\* the backlog document as it was.
C8_SecondRunIdle ==
    [][\A days_back \in DaysBack :
         (res.op = "synthesize_changelog" /\ SynthesizeChangelog(days_back)) =>
            /\ res'.created = 0
            /\ res'.enriched = 0
            /\ doc' = doc]_vars

\* C9: a capture_idea call with a valid category, made when find_similar_ideas
\* reports an idea (combined similarity >= 0.5), is refused as a duplicate
\* and adds nothing to the document.
C9_FlaggedNotInserted ==
    [][\A title \in Titles, description \in Descriptions,
          category \in CategoryInputs \cap CATEGORIES, boosted \in BoostInputs :
         (/\ CaptureIdea(title, description, category, boosted)
          /\ find_similar_ideas(exists, doc, title, description, boosted, today) # <<>>) =>
            /\ ~res'.ok
            /\ res'.err = "duplicate"
            /\ doc' = doc]_vars

\* C10: a tool call that returns a failure leaves the backlog file as it was
\* (and does not create it).
C10_FailureKeepsDocument ==
    [][~res'.ok => (doc' = doc /\ exists' = exists)]_vars

\* C10 witness: enrich_idea was refused for an id that is not in the file,
\* which holds another idea.
C10_Witness ==
    /\ res.op = "enrich_idea" /\ ~res.ok /\ res.err = "not found"
    /\ MarkersOf(doc, res.id) = {}
    /\ MarkerIds(doc) # {}

-----------------------------------------------------------------------------
(* The backlog tools on a backlog file that has no Archive section (the    *)
(* template before the section was introduced, or after its owner removed  *)
(* it): mark_idea_implemented then creates the section at the end of the   *)
(* file.                                                                   *)

\* c without its Archive section: the heading, its lines and the separator
\* that closes it
WithoutArchive(c) ==
    LET a == Min({i \in 1..Len(c) : c[i].k = "h2arch"})
        s == Min({q \in (a + 1)..Len(c) : c[q].k = "sep"})
    IN  Before(c, a) \o From(c, SkipNL(c, s + 1))

InitNoArchive ==
    /\ exists = TRUE
    /\ doc = WithoutArchive(Template)
    /\ today = 1
    /\ changelog = <<>>
    /\ state = DefaultState
    /\ assigned = <<>>
    /\ res = NoRes
    /\ ExtInit

NextNoArchive ==
    \/ \E title \in Titles, description \in Descriptions,
          category \in CategoryInputs, boosted \in BoostInputs :
          CaptureIdea(title, description, category, boosted)
    \/ \E id \in IdInputs :
          EnrichCount(doc) < MaxAnnotations /\ EnrichIdea(id, NextEvidence)
    \/ \E id \in IdInputs, impl \in ImplDates : MarkImplemented(id, impl)

SpecNoArchive == InitNoArchive /\ [][NextNoArchive]_vars

ParsedIds(e, c, now) ==
    LET ideas == parse_backlog_file(e, c, now)
    IN  {ideas[k].id : k \in 1..Len(ideas)}

\* C11: enrich_idea succeeds, and adds one annotation to the document, for
\* every id parse_backlog_file reports in the document, wherever the entry
\* lies; it fails with "not found" for the ids no entry carries, and only for
\* those.
C11_EnrichFindsEveryIdea ==
    [][\A id \in IdInputs :
         EnrichIdea(id, NextEvidence) =>
            /\ id \in ParsedIds(exists, doc, today) =>
                  res'.ok /\ EnrichCount(doc') = EnrichCount(doc) + 1
            /\ (~res'.ok /\ res'.err = "not found") => MarkersOf(doc, id) = {}]_vars

-----------------------------------------------------------------------------
(* Changelog synthesis on a changelog of two bullet lines, with calls that *)
(* an exception ends.  handle_call_tool re-raises whatever the handler     *)
(* raises; the file operations of the loop over relevant_entries           *)
(* (read_text, write_text) and save_synthesis_state raise OSError when     *)
(* the file system refuses them.                                           *)

\* relevant_entries of a synthesize_changelog call in the current state
SynthRelevant(days_back) ==
    LET last == load_synthesis_state(state).last_changelog_synthesis
        since_date == IF last # 0 THEN Max({today - days_back, last})
                      ELSE today - days_back
    IN  RelevantEntries(parse_changelog_entries(changelog, since_date))

\* the loop of synthesize_changelog over the first k relevant entries
SynthFirst(days_back, k) ==
    SynthLoop(SubSeq(SynthRelevant(days_back), 1, k), 1,
              [e |-> exists, c |-> doc,
               pool |-> PoolOf(parse_backlog_file(exists, doc, today)),
               created |-> 0, enriched |-> 0, ids |-> <<>>], today)

\* synthesize_changelog ended by an exception after k relevant entries were
\* processed: raised by a file operation on entry k + 1 or, when k is the
\* number of relevant entries, by save_synthesis_state
SynthesizeChangelogRaises(days_back, k) ==
    LET out == SynthFirst(days_back, k)
    IN  /\ k \in 0..Len(SynthRelevant(days_back))
        /\ SynthRelevant(days_back) # <<>>
        /\ Len(assigned) + Len(out.ids) <= MaxIdeas
        /\ EnrichCount(out.c) <= MaxEnrich
        /\ exists' = out.e
        /\ doc' = out.c
        /\ assigned' = assigned \o out.ids
        /\ res' = [NoRes EXCEPT !.op = "synthesize_changelog", !.ok = FALSE,
                                !.err = "exception"]
        /\ UNCHANGED <<ext, today, changelog, state>>

LogSize == 2

InitSynth ==
    /\ exists = FALSE
    /\ doc = <<>>
    /\ today = 1
    /\ changelog \in [1..LogSize -> LogLines]
    /\ state = DefaultState
    /\ assigned = <<>>
    /\ res = NoRes
    /\ ExtInit

NextSynth ==
    \/ \E title \in {TA}, description \in Descriptions, category \in CategoryInputs :
          CaptureIdea(title, description, category, {})
    \/ \E days_back \in DaysBack : SynthesizeChangelog(days_back)
    \/ \E days_back \in DaysBack, k \in 0..LogSize :
          SynthesizeChangelogRaises(days_back, k)
    \/ Tick

SpecSynth == InitSynth /\ [][NextSynth]_vars

\* C12: after a tool call that failed or was ended by an exception, the
\* backlog document is what it was before the call or, for a synthesis call,
\* what the call leaves when it processes every relevant entry.
C12_AllOrNothing ==
    [][~res'.ok =>
         \/ doc' = doc /\ exists' = exists
         \/ /\ res'.op = "synthesize_changelog"
            /\ \E days_back \in DaysBack :
                  LET all == SynthFirst(days_back, Len(SynthRelevant(days_back)))
                  IN  doc' = all.c /\ exists' = all.e]_vars

-----------------------------------------------------------------------------
(* The event loop.  The MCP server hands every tools/call request to       *)
(* handle_call_tool as a task of one asyncio event loop; tasks change      *)
(* places only where a coroutine awaits.  A handler is modelled as the     *)
(* function Handle of the files it reads; a task applies it in one step    *)
(* when the handler has no suspension point between its reads and its      *)
(* writes, and in two steps (read, then write what was computed from the   *)
(* files read) when it has one.                                            *)

MaxTasks == 2     \* calls submitted together
MaxBatches == 2   \* groups of calls per behaviour

\* the files a handler reads
Files == [e |-> exists, c |-> doc, st |-> state]

Failed(s, err) == [e |-> s.e, c |-> s.c, st |-> s.st, ok |-> FALSE, err |-> err, ids |-> <<>>]

HandleCapture(call, s, now) ==
    LET similar == find_similar_ideas(s.e, s.c, call.title, call.description, {}, now)
        id == generate_idea_id(s.e, s.c)
    IN  IF call.category \notin CATEGORIES THEN Failed(s, "invalid category")
        ELSE IF similar # <<>> /\ similar[1].similarity > 75 THEN Failed(s, "duplicate")
        ELSE [e |-> TRUE,
              c |-> add_idea_to_backlog(s.e, s.c, id, call.title, call.description,
                                        call.category, now),
              st |-> s.st, ok |-> TRUE, err |-> "", ids |-> <<id>>]

HandleEnrich(call, s, now) ==
    LET r == enrich_idea_in_backlog(s.e, s.c, call.id, call.evidence, Source, now)
    IN  [e |-> s.e, c |-> r.doc, st |-> s.st, ok |-> r.ok, err |-> r.err, ids |-> <<>>]

HandleMark(call, s, now) ==
    LET r == mark_idea_implemented(s.e, s.c, call.id, now, now)
    IN  [e |-> s.e, c |-> r.doc, st |-> s.st, ok |-> r.ok, err |-> r.err, ids |-> <<>>]

HandleSynthesize(call, s, now) ==
    LET st == load_synthesis_state(s.st)
        last == st.last_changelog_synthesis
        since_date == IF last # 0 THEN Max({now - call.days_back, last})
                      ELSE now - call.days_back
        entries == parse_changelog_entries(changelog, since_date)
        relevant == RelevantEntries(entries)
        out == SynthLoop(relevant, 1,
                         [e |-> s.e, c |-> s.c,
                          pool |-> PoolOf(parse_backlog_file(s.e, s.c, now)),
                          created |-> 0, enriched |-> 0, ids |-> <<>>], now)
    IN  IF entries = <<>>
        THEN [e |-> s.e, c |-> s.c, st |-> s.st, ok |-> TRUE, err |-> "", ids |-> <<>>]
        ELSE [e |-> out.e, c |-> out.c,
              st |-> [st EXCEPT
                        !.file = "ok",
                        !.last_changelog_synthesis = now,
                        !.synthesis_history =
                            Append(@, [type |-> "changelog", date |-> now,
                                       scanned |-> Len(entries),
                                       relevant |-> Len(relevant),
                                       created |-> out.created,
                                       enriched |-> out.enriched])],
              ok |-> TRUE, err |-> "", ids |-> out.ids]

\* _handle_call_tool_inner as a function of the files read
Handle(call, s, now) ==
    CASE call.op = "capture_idea" -> HandleCapture(call, s, now)
      [] call.op = "enrich_idea" -> HandleEnrich(call, s, now)
      [] call.op = "mark_implemented" -> HandleMark(call, s, now)
      [] call.op = "synthesize_changelog" -> HandleSynthesize(call, s, now)

\* the handler of the call awaits between reading the files and writing them
SuspendsAfterRead_await(call) == TRUE

\* no branch of _handle_call_tool_inner holds an await: the file operations
\* and the subprocess of the semantic search are blocking calls
SuspendsAfterRead(call) == FALSE

ToolCalls ==
    {[op |-> "capture_idea", title |-> t, description |-> DA, category |-> "ux"] : t \in Titles}
    \cup {[op |-> "enrich_idea", id |-> 1, evidence |-> "E1"],
          [op |-> "mark_implemented", id |-> 1],
          [op |-> "synthesize_changelog", days_back |-> 30]}

AllAt(pcs, v) == \A k \in 1..Len(pcs) : pcs[k] = v

\* a request arrives while no task of the group has run
Submit(call) ==
    /\ Len(tasks.calls) < MaxTasks
    /\ tasks.batch < MaxBatches
    /\ AllAt(tasks.pc, "start")
    /\ tasks' = [tasks EXCEPT !.base = <<Files>>,
                              !.calls = Append(@, call),
                              !.pc = Append(@, "start"),
                              !.local = Append(@, Files)]
    /\ UNCHANGED <<exists, doc, today, changelog, state, assigned, res, upd, qmd, learnings>>

\* the event loop runs task k up to its next suspension point or its end
RunTask(k) ==
    /\ k \in 1..Len(tasks.calls)
    /\ tasks.pc[k] # "done"
    /\ LET call == tasks.calls[k]
           first == tasks.pc[k] = "start"
           read == IF first THEN Files ELSE tasks.local[k]
       IN  IF first /\ SuspendsAfterRead(call)
           THEN /\ tasks' = [tasks EXCEPT !.pc[k] = "read", !.local[k] = Files]
                /\ UNCHANGED <<exists, doc, today, changelog, state, assigned, res, upd, qmd, learnings>>
           ELSE \E r \in {Handle(call, read, today)} :
                /\ tasks' = [tasks EXCEPT !.pc[k] = "done"]
                /\ exists' = IF r.e # read.e THEN r.e ELSE exists
                /\ doc' = IF r.c # read.c THEN r.c ELSE doc
                /\ state' = IF r.st # read.st THEN r.st ELSE state
                /\ assigned' = assigned \o r.ids
                /\ res' = [NoRes EXCEPT !.op = call.op, !.ok = r.ok, !.err = r.err]
                /\ UNCHANGED <<today, changelog, upd, qmd, learnings>>

\* every response was sent: the group is forgotten
Collect ==
    /\ tasks.calls # <<>>
    /\ AllAt(tasks.pc, "done")
    /\ tasks' = [NoTasks EXCEPT !.batch = tasks.batch + 1]
    /\ UNCHANGED <<exists, doc, today, changelog, state, assigned, res, upd, qmd, learnings>>

InitServer ==
    /\ exists = FALSE
    /\ doc = <<>>
    /\ today = 1
    /\ changelog = <<[date |-> 1, feature |-> F3]>>
    /\ state = DefaultState
    /\ assigned = <<>>
    /\ res = NoRes
    /\ ExtInit

NextServer ==
    \/ \E call \in ToolCalls : Submit(call)
    \/ \E k \in 1..MaxTasks : RunTask(k)
    \/ Collect

SpecServer == InitServer /\ [][NextServer]_vars

\* the files after the calls ran one after another in the order f, from s
RECURSIVE SerialRun(_, _, _, _, _)
SerialRun(calls, f, k, s, now) ==
    IF k > Len(calls) THEN s
    ELSE LET r == Handle(calls[f[k]], s, now)
         IN  SerialRun(calls, f, k + 1, [e |-> r.e, c |-> r.c, st |-> r.st], now)

Orders(n) == {f \in [1..n -> 1..n] : \A a, b \in 1..n : a # b => f[a] # f[b]}

\* C13: when every call of a group submitted together has returned, the
\* backlog document and the synthesis state are what running the calls one
\* after another, in some order, leaves.
C13_Serializable ==
    (tasks.calls # <<>> /\ AllAt(tasks.pc, "done")) =>
        \E f \in Orders(Len(tasks.calls)) :
            SerialRun(tasks.calls, f, 1, tasks.base[1], today) = Files

\* C13 witness: two calls submitted together have returned, and the order
\* they ran in shows: the other order would have left another document.
C13_Witness ==
    /\ Len(tasks.calls) = 2
    /\ AllAt(tasks.pc, "done")
    /\ \E f \in Orders(2) : SerialRun(tasks.calls, f, 1, tasks.base[1], today) = Files
    /\ \E f \in Orders(2) : SerialRun(tasks.calls, f, 1, tasks.base[1], today).c # doc
    /\ tasks.batch = 1

-----------------------------------------------------------------------------
(* find_similar_ideas applied to the backlogs capture_idea builds from     *)
(* three titles that resemble each other.                                  *)

SimilarTitles == {TA, TB, TC}

\* find_similar_ideas(title, description) as capture_idea and
\* synthesize_learnings call it
FindSimilarIdeas(title, description, boosted) ==
    /\ exists
    /\ res' = [NoRes EXCEPT
                 !.op = "find_similar_ideas",
                 !.similar = find_similar_ideas(exists, doc, title, description,
                                                boosted, today)]
    /\ UNCHANGED <<ext, exists, doc, today, changelog, state, assigned>>

InitSimilar ==
    /\ exists = FALSE
    /\ doc = <<>>
    /\ today = 1
    /\ changelog = <<>>
    /\ state = DefaultState
    /\ assigned = <<>>
    /\ res = NoRes
    /\ ExtInit

NextSimilar ==
    \/ \E title \in SimilarTitles \ {TA}, description \in Descriptions,
          category \in CategoryInputs, boosted \in BoostInputs :
          CaptureIdea(title, description, category, boosted)
    \/ \E title \in SimilarTitles, description \in Descriptions, boosted \in BoostInputs :
          FindSimilarIdeas(title, description, boosted)
    \/ \E id \in IdInputs :
          EnrichCount(doc) < MaxAnnotations /\ EnrichIdea(id, NextEvidence)
    \/ Tick

SpecSimilar == InitSimilar /\ [][NextSimilar]_vars

\* the combined score of the idea of the document that has the id
ScoreOfId(id, title, description, boosted) ==
    LET found == FirstWithId(parse_backlog_file(exists, doc, today), id)
    IN  CombinedScore(found[1], title, description, boosted)

\* C14: for every query, find_similar_ideas returns at most 3 ideas, each of
\* combined score 0.6 x title similarity + 0.25 x description similarity +
\* boost of at least 0.5, in descending order of that score, and no idea it
\* leaves out has a higher combined score than one it returns; without
\* semantic search (no title boosted) no returned idea is a semantic match.
C14_RankedBySimilarity ==
    \A title \in SimilarTitles, description \in Descriptions, boosted \in BoostInputs :
        LET r == find_similar_ideas(exists, doc, title, description, boosted, today)
            ideas == parse_backlog_file(exists, doc, today)
            Sc(k) == ScoreOfId(r[k].id, title, description, boosted)
            returned == {r[k].id : k \in 1..Len(r)}
        IN  /\ Len(r) <= 3
            /\ \A k \in 1..Len(r) : Sc(k) >= SimilarThreshold
            /\ \A k \in 1..(Len(r) - 1) : Sc(k) >= Sc(k + 1)
            /\ \A j \in 1..Len(ideas) :
                  ideas[j].id \notin returned =>
                     \A k \in 1..Len(r) :
                        CombinedScore(ideas[j], title, description, boosted) <= Sc(k)
            /\ boosted = {} => \A k \in 1..Len(r) : ~r[k].semantic_match

-----------------------------------------------------------------------------
(* validate_backlog_ideas                                                  *)

STALE_THRESHOLD_DAYS == 90
AI_SHELF_LIFE_DAYS == 30
AI_LOW_CONVICTION_SCORE == 55
BACKLOG_TARGET_MAX == 20

\* n / d rounded to the nearest integer (round(x, 2) of a confidence in
\* hundredths; no age of the model lies at a tie)
RoundDiv(n, d) == (2 * n + d) \div (2 * d)

\* idea_block of validate_backlog_ideas: first and last index of the text
\* from the first marker of the id up to the next entry, heading or the end
ValidateBlock(c, id) ==
    LET i == FirstMarker(c, id)
    IN  IF i = 0 THEN <<1, 0>> ELSE <<i, MarkBlockEnd(c, i) - 1>>

\* _parse_author: the text of the first Author line of the block, "" for None
ParsedAuthor(c, lo, hi) ==
    LET m == FirstOfKind(c, lo, hi, "author")
    IN  IF m = 0 THEN "" ELSE c[m].s

ParsedEnrichmentDates_none(c, lo, hi) == {}

\* _parse_enrichment_dates
ParsedEnrichmentDates(c, lo, hi) == {c[q].d : q \in {p \in lo..hi : c[p].k = "enrich"}}

\* 'AI' in author, for the author texts of the program
IsAIAuthor(author) == author \in {"AI (Anthropic Changelog Synthesis)", "AI (Session Learning Synthesis)"}

\* the scanned system state, by its similarity to the ideas: skills, tools,
\* shipped and done list calculate_similarity(idea_lower, text), in units of
\* 1/10000, of the texts of the four sources in scan order, for the ideas in
\* about; the texts share nothing with the other ideas
NoScan == [about |-> {}, skills |-> <<>>, tools |-> <<>>, shipped |-> <<>>, done |-> <<>>]

Tagged(sims, source) == [k \in 1..Len(sims) |-> [source |-> source, item |-> k, sim |-> sims[k]]]

\* the texts in the order the four redundancy checks read them
ScanItems(scan) ==
    Tagged(scan.skills, "skill") \o Tagged(scan.tools, "tool")
    \o Tagged(scan.shipped, "shipped") \o Tagged(scan.done, "done")

\* sim > 0.6, sim > 0.6, sim > 0.55, sim > 0.5
KillBar(source) ==
    CASE source = "skill" -> 6000
      [] source = "tool" -> 6000
      [] source = "shipped" -> 5500
      [] source = "done" -> 5000

\* sim > 0.35 of the capabilities check
DownrankBar == 3500

\* round(sim, 2), in hundredths (no similarity of the model lies at a tie)
RoundSim(sim) == (sim + 50) \div 100

\* the four redundancy checks from text k on; best = best_action,
\* best_confidence (in hundredths) and best_reason so far
RECURSIVE RedundancyFrom(_, _, _)
RedundancyFrom(items, k, best) ==
    IF k > Len(items) THEN best
    ELSE LET it == items[k]
             hit == [action |-> "kill", confidence |-> RoundSim(it.sim),
                     reason |-> it.source, item |-> it.item]
         IN  IF it.sim > KillBar(it.source)
             THEN IF it.sim > best.confidence * 100
                  THEN RedundancyFrom(items, k + 1, hit)
                  ELSE IF it.source = "done" /\ it.sim > DownrankBar /\ best.confidence < 50
                  THEN RedundancyFrom(items, k + 1,
                                      [hit EXCEPT !.action = "downrank", !.reason = "partial"])
                  ELSE RedundancyFrom(items, k + 1, best)
             ELSE RedundancyFrom(items, k + 1, best)

\* the entry of actions for one active idea (action "" when the idea is
\* healthy)
ValidateIdea(c, idea, scan, now) ==
    LET b == ValidateBlock(c, idea.id)
        author == ParsedAuthor(c, b[1], b[2])
        enrichment_dates == ParsedEnrichmentDates(c, b[1], b[2])
        age_days == now - idea.captured
        last_enriched == IF enrichment_dates # {} THEN Max(enrichment_dates)
                         ELSE idea.captured
        days_since_touch == now - last_enriched
        entry == [id |-> idea.id, action |-> "", reason |-> "", confidence |-> 0,
                  item |-> 0]
        best == RedundancyFrom(IF idea.id \in scan.about THEN ScanItems(scan) ELSE <<>>, 1,
                               [action |-> "", confidence |-> 0, reason |-> "", item |-> 0])
    IN  IF best.action # ""
        THEN [entry EXCEPT !.action = best.action, !.reason = best.reason,
                           !.confidence = Min({best.confidence, 99}),
                           !.item = best.item]
        ELSE IF age_days >= STALE_THRESHOLD_DAYS /\ days_since_touch >= STALE_THRESHOLD_DAYS
        THEN [entry EXCEPT
                !.action = "archive_stale", !.reason = "age",
                !.confidence = Min({50 + RoundDiv((age_days - STALE_THRESHOLD_DAYS) * 100, 180), 90})]
        ELSE IF /\ author # "" /\ IsAIAuthor(author)
                /\ age_days >= AI_SHELF_LIFE_DAYS
                /\ idea.score < AI_LOW_CONVICTION_SCORE
        THEN [entry EXCEPT
                !.action = "archive_stale", !.reason = "ai",
                !.confidence = Min({60 + RoundDiv((age_days - AI_SHELF_LIFE_DAYS) * 100, 120), 99})]
        ELSE entry

RECURSIVE ValidateFrom(_, _, _, _, _)
ValidateFrom(c, ideas, k, scan, now) ==
    IF k > Len(ideas) THEN <<>>
    ELSE LET a == ValidateIdea(c, ideas[k], scan, now)
         IN  (IF ideas[k].status = "active" /\ a.action # "" THEN <<a>> ELSE <<>>)
             \o ValidateFrom(c, ideas, k + 1, scan, now)

validate_backlog_ideas(e, c, scan, now) ==
    LET ideas == parse_backlog_file(e, c, now)
        active == {k \in 1..Len(ideas) : ideas[k].status = "active"}
        found == ValidateFrom(IF e THEN c ELSE <<>>, ideas, 1, scan, now)
        actions == SortDesc(found, [k \in 1..Len(found) |-> found[k].confidence])
    IN  [validated |-> Cardinality(active),
         actions |-> actions,
         healthy |-> Cardinality(active) - Len(actions),
         over_target_by |-> Max({0, Cardinality(active) - BACKLOG_TARGET_MAX})]

\* validate_backlog
ValidateBacklog(scan) ==
    LET r == validate_backlog_ideas(exists, doc, scan, today)
    IN  /\ res' = [op |-> "validate_backlog", ok |-> TRUE, err |-> "",
                   validated |-> r.validated, actions |-> r.actions,
                   healthy |-> r.healthy, scan |-> scan]
        /\ UNCHANGED <<ext, exists, doc, today, changelog, state, assigned>>

\* add_ai_idea_to_backlog with a score, as a ranking run calls it
AddAIIdea(title, description, category, score) ==
    LET id == generate_idea_id(exists, doc)
        source == "Anthropic Changelog Synthesis"
    IN  /\ Len(assigned) < MaxIdeas
        /\ doc' = insert_idea_into_priority_queue(exists, doc, id, title, description,
                      category, score, "AI (" \o source \o ")", source, today)
        /\ exists' = TRUE
        /\ assigned' = Append(assigned, id)
        /\ res' = [NoRes EXCEPT !.op = "add_ai_idea", !.id = id]
        /\ UNCHANGED <<ext, today, changelog, state>>

\* the days on which calls are made: ideas are captured on day 1 or 2; the
\* later days lie 29, 30, 80, 89, 90, 110, 119 and 120 days after those and
\* 10 and 90 days after each other, which is what the thresholds tell apart
Calendar == {1, 2, 31, 91, 111, 121}

CaptureDays == {1, 2}

\* days pass without a call
Advance ==
    /\ today < Max(Calendar)
    /\ today' = Min({d \in Calendar : d > today})
    /\ UNCHANGED <<ext, exists, doc, changelog, state, assigned, res>>

InitValidate ==
    /\ exists = FALSE
    /\ doc = <<>>
    /\ today = 1
    /\ changelog = <<>>
    /\ state = DefaultState
    /\ assigned = <<>>
    /\ res = NoRes
    /\ ExtInit

NextValidate ==
    \/ \E description \in Descriptions :
          today \in CaptureDays /\ CaptureIdea(TA, description, "ux", {})
    \/ \E score \in {54, 55} :
          /\ today \in CaptureDays
          /\ AddAIIdea("Leverage: " \o FeatureFacts[F1].stem, AIDescription(F1),
                       "knowledge", score)
    \/ \E id \in MarkerIds(doc) :
          EnrichCount(doc) < MaxAnnotations /\ EnrichIdea(id, NextEvidence)
    \/ \E scan \in {NoScan, [NoScan EXCEPT !.about = MarkerIds(doc), !.skills = <<6100>>]} :
          ValidateBacklog(scan)
    \/ Advance

SpecValidate == InitValidate /\ [][NextValidate]_vars

\* the indices of the markers of active ideas: those under a priority heading
ActiveMarkers(c) == {i \in 1..Len(c) : IsMarker(c[i]) /\ SectionOf(c, i) \in PrioritySections}

\* the numbers d (dates) or n of the lines of kind k in the entry at c[i]
DatesIn(c, i, k) == {c[q].d : q \in {p \in i..(BlockEndOf(c, i) - 1) : c[p].k = k}}
NumbersIn(c, i, k) == {c[q].n : q \in {p \in i..(BlockEndOf(c, i) - 1) : c[p].k = k}}

\* the entries validate_backlog_ideas reports for the id
ActionsFor(actions, id) == {k \in 1..Len(actions) : actions[k].id = id}

\* C15: without a redundancy match, validate_backlog flags an active idea as
\* archive_stale by age decay exactly when it was captured 90 days ago or
\* earlier and its latest annotation (its capture, when it has none) is 90
\* days old or older; when that rule does not fire, an idea with an AI author
\* line, captured 30 days ago or earlier and of score below 55, is flagged
\* archive_stale; the confidence is at most 0.9 for age decay and at most
\* 0.99 in every entry of every report.
C15_Staleness ==
    LET r == validate_backlog_ideas(exists, doc, NoScan, today)
    IN  /\ \A i \in ActiveMarkers(doc) :
              LET captured == Max(DatesIn(doc, i, "captured"))
                  enriched == DatesIn(doc, i, "enrich")
                  age == today - captured
                  touch == today - (IF enriched # {} THEN Max(enriched) ELSE captured)
                  decayed == age >= 90 /\ touch >= 90
                  as == ActionsFor(r.actions, doc[i].id)
                  by_age == {k \in as : r.actions[k].reason = "age"}
              IN  /\ Cardinality(as) <= 1
                  /\ by_age # {} <=> decayed
                  /\ \A k \in by_age :
                        r.actions[k].action = "archive_stale" /\ r.actions[k].confidence <= 90
                  /\ (/\ ~decayed
                      /\ DatesIn(doc, i, "author") # {}
                      /\ age >= 30
                      /\ Max(NumbersIn(doc, i, "score")) < 55) =>
                        \E k \in as : r.actions[k].action = "archive_stale"
        /\ \A k \in 1..Len(r.actions) : r.actions[k].confidence <= 99
        /\ res.op = "validate_backlog" =>
              \A k \in 1..Len(res.actions) : res.actions[k].confidence <= 99

\* C15 witness: a report made 120 days after two ideas were captured flags
\* the one that was never annotated by age decay and does not flag the other,
\* annotated 10 days before the report, by that rule.
C15_Witness ==
    /\ res.op = "validate_backlog" /\ res.scan = NoScan
    /\ \E i, j \in ActiveMarkers(doc) :
          /\ DatesIn(doc, i, "captured") = {today - 120}
          /\ DatesIn(doc, i, "enrich") = {}
          /\ \E k \in ActionsFor(res.actions, doc[i].id) : res.actions[k].reason = "age"
          /\ DatesIn(doc, j, "captured") = {today - 120}
          /\ DatesIn(doc, j, "enrich") = {today - 10}
          /\ \A k \in ActionsFor(res.actions, doc[j].id) : res.actions[k].reason # "age"

\* C16: for every feature line of the changelog a synthesize_changelog call
\* has scanned, score_changelog_relevance is
\* 15 for each relevance keyword in the text, plus 10 for an added / new /
\* support for phrase, plus 5 for a fixed / improved phrase, minus 20 for an
\* out-of-domain keyword, clamped to 0..100; the score is never below 0 and
\* never above 100.
C16_RelevanceClamped ==
    (res.op = "synthesize_changelog" /\ res.scanned > 0) =>
      \A k \in 1..Len(changelog) :
        LET x == FeatureFacts[changelog[k].feature]
            raw == 15 * x.kw + (IF x.added THEN 10 ELSE 0) + (IF x.fixed THEN 5 ELSE 0)
                   - (IF x.ood THEN 20 ELSE 0)
            score == score_changelog_relevance(changelog[k].feature)
        IN  /\ score = Max({0, Min({raw, 100})})
            /\ score >= 0
            /\ score <= 100

-----------------------------------------------------------------------------
(* list_ideas                                                              *)

\* a string argument the call does not carry; an integer argument is a
\* sequence, empty when the call does not carry it
Absent == "absent"

\* the elements of q at the indices S, in the order of q
RECURSIVE PickSeq(_, _)
PickSeq(q, S) ==
    IF S = {} THEN <<>> ELSE <<q[Min(S)]>> \o PickSeq(q, S \ {Min(S)})

\* ideas[:limit] for limit >= 0
Prefix(ideas, limit) == SubSeq(ideas, 1, Min({limit, Len(ideas)}))

\* the list the list_ideas branch puts into its result (an empty category or
\* status string is treated as not given)
list_ideas(e, c, args, now) ==
    LET ideas == parse_backlog_file(e, c, now)
        given == \/ args.category # Absent \/ args.status # Absent
                 \/ args.min_score # <<>> \/ args.limit # <<>>
        InCategory(i) == args.category \in {Absent, ""} \/ i.category = args.category
        HasScore(i) == args.min_score = <<>> \/ i.score >= args.min_score[1]
        HasStatus(i) == args.status \in {Absent, ""} \/ i.status = args.status
        kept == {k \in 1..Len(ideas) :
                    InCategory(ideas[k]) /\ HasScore(ideas[k]) /\ HasStatus(ideas[k])}
        active == {k \in 1..Len(ideas) : ideas[k].status = "active"}
    IN  IF given
        THEN Prefix(PickSeq(ideas, kept), IF args.limit = <<>> THEN 10 ELSE args.limit[1])
        ELSE Prefix(PickSeq(ideas, active), 10)

ListArguments ==
    [category : {Absent, "ux", "system"}, min_score : {<<>>, <<0>>, <<55>>},
     status : {Absent, "active", "implemented"}, limit : {<<>>, <<1>>}]

\* list_ideas
ListIdeas(args) ==
    LET ideas == list_ideas(exists, doc, args, today)
    IN  /\ res' = [op |-> "list_ideas", ok |-> TRUE, err |-> "", args |-> args,
                   ideas |-> ideas, count |-> Len(ideas)]
        /\ UNCHANGED <<ext, exists, doc, today, changelog, state, assigned>>

InitList ==
    /\ exists = FALSE
    /\ doc = <<>>
    /\ today = 1
    /\ changelog = <<>>
    /\ state = DefaultState
    /\ assigned = <<>>
    /\ res = NoRes
    /\ ExtInit

NextList ==
    \/ \E description \in Descriptions : CaptureIdea(TA, description, "ux", {})
    \/ \E score \in {54, 55} :
          AddAIIdea("Leverage: " \o FeatureFacts[F1].stem, AIDescription(F1),
                    "system", score)
    \/ \E id \in MarkerIds(doc), impl \in ImplDates : MarkImplemented(id, impl)
    \/ \E args \in ListArguments : ListIdeas(args)

SpecList == InitList /\ [][NextList]_vars

\* C17: list_ideas returns ideas of status active unless the call names a
\* status, whatever other arguments it carries; every idea returned has the
\* category, at least the min_score and the status asked for; at most limit
\* ideas (10 without a limit) are returned, and count is their number.
C17_ListFilters ==
    res.op = "list_ideas" =>
        LET a == res.args
            want == IF a.status = Absent THEN "active" ELSE a.status
        IN  /\ \A k \in 1..Len(res.ideas) :
                  /\ res.ideas[k].status = want
                  /\ a.category # Absent => res.ideas[k].category = a.category
                  /\ a.min_score # <<>> => res.ideas[k].score >= a.min_score[1]
            /\ Len(res.ideas) <= (IF a.limit = <<>> THEN 10 ELSE a.limit[1])
            /\ res.count = Len(res.ideas)

-----------------------------------------------------------------------------
(* The update checker (core/mcp/update_checker.py).  Its state is two files *)
(* of the vault: System/.last-update-check and System/.update-available.    *)
(* Versions are triples <<major, minor, patch>>; the clock moves in whole   *)
(* days, so (datetime.now() - last_check).days is today - last_check.       *)

CHECK_INTERVAL_DAYS == 1

\* the version in package.json
CurrentVersion == <<1, 2, 0>>

\* what fetch_latest_release can return: None, or a release with this tag
Releases == {<<>>, <<<<1, 1, 0>>>>, <<<<1, 2, 0>>>>, <<<<1, 3, 0>>>>, <<<<2, 0, 0>>>>}

\* tuple comparison current_tuple < latest_tuple
VersionLess(a, b) ==
    \/ a[1] < b[1]
    \/ a[1] = b[1] /\ a[2] < b[2]
    \/ a[1] = b[1] /\ a[2] = b[2] /\ a[3] < b[3]

compare_versions(current, latest) ==
    IF VersionLess(current, latest) THEN "older"
    ELSE IF current = latest THEN "same" ELSE "newer"

should_check_for_updates(u, now) ==
    \/ u.last_check = 0
    \/ now - u.last_check >= CHECK_INTERVAL_DAYS

\* the file is rewritten whole, last_notified None (0)
write_update_notification(u, latest_version, update_type) ==
    [u EXCEPT !.note = <<[latest_version |-> latest_version,
                           update_type |-> update_type,
                           last_notified |-> 0]>>]

clear_update_notification(u) == [u EXCEPT !.note = <<>>]

mark_user_notified(u, now) ==
    IF u.note = <<>> THEN u
    ELSE [u EXCEPT !.note = <<[u.note[1] EXCEPT !.last_notified = now]>>]

should_notify_user(u, now) ==
    /\ u.note # <<>>
    /\ \/ u.note[1].last_notified = 0
       \/ u.note[1].last_notified < now

UpdateType(current, latest) ==
    IF latest[1] > current[1] THEN "major"
    ELSE IF latest[2] > current[2] THEN "minor" ELSE "patch"

\* check_for_updates(force), release being what GitHub answers
CheckForUpdates(force, release) ==
    /\ IF ~force /\ ~should_check_for_updates(upd, today)
       THEN /\ res' = [op |-> "check_for_updates", ok |-> TRUE, err |-> "",
                       update_available |-> FALSE, skip_reason |-> "too_recent"]
            /\ upd' = upd
       ELSE IF release = <<>>
       THEN /\ res' = [op |-> "check_for_updates", ok |-> TRUE, err |-> "",
                       update_available |-> FALSE, skip_reason |-> "network_error"]
            /\ upd' = upd
       ELSE LET latest_version == release[1]
                comparison == compare_versions(CurrentVersion, latest_version)
                update_available == comparison = "older"
                checked == [upd EXCEPT !.last_check = today]
            IN  /\ upd' = IF update_available
                          THEN write_update_notification(checked, latest_version,
                                   UpdateType(CurrentVersion, latest_version))
                          ELSE clear_update_notification(checked)
                /\ res' = [op |-> "check_for_updates", ok |-> TRUE, err |-> "",
                           update_available |-> update_available, skip_reason |-> ""]
    /\ UNCHANGED <<backlog, today, qmd>>

GetPendingUpdateNotification ==
    /\ res' = [op |-> "get_pending_update_notification", ok |-> TRUE, err |-> "",
               should_notify |-> should_notify_user(upd, today),
               latest_version |-> IF should_notify_user(upd, today)
                                  THEN <<upd.note[1].latest_version>> ELSE <<>>]
    /\ UNCHANGED <<backlog, today, upd, qmd>>

MarkUpdateNotified ==
    /\ upd' = [mark_user_notified(upd, today) EXCEPT
                  !.marked = IF upd.note = <<>> THEN @ ELSE today]
    /\ res' = [op |-> "mark_update_notified", ok |-> TRUE, err |-> "",
               notified_date |-> today]
    /\ UNCHANGED <<backlog, today, qmd>>

DismissUpdate ==
    /\ upd' = clear_update_notification(upd)
    /\ res' = [op |-> "dismiss_update", ok |-> TRUE, err |-> ""]
    /\ UNCHANGED <<backlog, today, qmd>>

GetUpdateStatus ==
    /\ res' = [op |-> "get_update_status", ok |-> TRUE, err |-> "",
               check_due |-> should_check_for_updates(upd, today),
               last_check |-> upd.last_check]
    /\ UNCHANGED <<backlog, today, upd, qmd>>

InitUpdates ==
    /\ exists = FALSE
    /\ doc = <<>>
    /\ today = 1
    /\ changelog = <<>>
    /\ state = DefaultState
    /\ assigned = <<>>
    /\ res = NoRes
    /\ ExtInit

NextUpdates ==
    \/ \E force \in BOOLEAN, release \in Releases : CheckForUpdates(force, release)
    \/ GetPendingUpdateNotification
    \/ MarkUpdateNotified
    \/ DismissUpdate
    \/ GetUpdateStatus
    \/ Tick

SpecUpdates == InitUpdates /\ [][NextUpdates]_vars

\* C18: once mark_update_notified has been called on a day (here: called
\* while an update was pending, the case the reminder is about), every later
\* get_pending_update_notification call of that day answers should_notify =
\* false, whatever check_for_updates and get_update_status calls came in
\* between; and while an update is pending and the last reminder is of an
\* earlier day, it answers should_notify = true.
C18_OncePerDay ==
    res.op = "get_pending_update_notification" =>
        /\ upd.marked = today => ~res.should_notify
        /\ (upd.note # <<>> /\ upd.note[1].last_notified < today) => res.should_notify

-----------------------------------------------------------------------------
(* The shared vault search (core/utils/qmd_query.py).  Its state is the two *)
(* module globals; what the qmd and grep subprocesses do is an input of     *)
(* each call.  Scores are in hundredths.  The vault path resolves           *)
(* (VAULT_PATH names a directory).                                          *)

MaxProbes == 3      \* "qmd status" subprocesses run in all

\* how subprocess.run([qmd, "status"], timeout=5) can end
ProbeOutcomes == {"zero", "nonzero", "timeout", "raise"}

\* _qmd_available after the probe: result.returncode == 0, False on
\* TimeoutExpired and on any other exception
CachedAfterProbe_retry(probe) == IF probe = "zero" THEN "yes" ELSE IF probe = "nonzero" THEN "no" ELSE "unset"

CachedAfterProbe(probe) == IF probe = "zero" THEN "yes" ELSE "no"

\* _find_qmd: installed = shutil.which or one of the candidate paths finds
\* the binary now; the answer is cached in _qmd_path (False when not found)
find_qmd(q, installed) ==
    IF q.path # "unset" THEN q
    ELSE [q EXCEPT !.path = IF installed THEN "found" ELSE "missing"]

\* the value a call returns, noted in the history
Observe(q) == [q EXCEPT !.seen = @ \cup {q.available}]

\* is_qmd_available: the globals after the call; it returns .available = "yes"
is_qmd_available(q, installed, probe) ==
    IF q.available # "unset" THEN Observe(q)
    ELSE LET f == find_qmd(q, installed)
         IN  IF f.path = "missing"
             THEN Observe([f EXCEPT !.available = "no"])
             ELSE Observe([f EXCEPT !.available = CachedAfterProbe(probe),
                                    !.probes = @ + 1, !.total = @ + 1])

\* the call runs the probe subprocess
WouldProbe(q, installed) ==
    q.available = "unset" /\ find_qmd(q, installed).path = "found"

reset_cache(q) == [q EXCEPT !.path = "unset", !.available = "unset", !.probes = 0, !.seen = {}]

QmdHit(path, score) == [path |-> path, score |-> score, source |-> "qmd"]

\* how subprocess.run([qmd, search_type, query, ...], timeout=30) can end;
\* results is the parsed stdout of a run that exits with 0 ("raise" includes
\* output _parse_qmd_output cannot digest)
SemanticOutcomes ==
    { [kind |-> "zero", results |-> <<>>],
      [kind |-> "zero", results |-> <<QmdHit("a.md", 40)>>],
      [kind |-> "zero", results |-> <<QmdHit("a.md", 40), QmdHit("b.md", 95), QmdHit("c.md", 60)>>],
      [kind |-> "nonzero", results |-> <<>>],
      [kind |-> "timeout", results |-> <<>>],
      [kind |-> "raise", results |-> <<>>] }

\* _qmd_search: the globals after the call and the list returned
qmd_search(q, installed, semantic) ==
    LET f == find_qmd(q, installed)
    IN  [q |-> f,
         results |-> IF f.path # "found" THEN <<>>
                     ELSE IF semantic.kind = "zero" THEN semantic.results
                     ELSE <<>>]

Queries == {"to be", "customer retention"}

\* [w for w in query.lower().split() if len(w) > 2]
Words(query) == IF query = "to be" THEN {} ELSE {"customer", "retention"}

\* how the rg / grep subprocess can end: "ran" with the files of its stdout
\* (whatever its exit code), timeout=10 expired, binary missing
GrepOutcomes ==
    { [kind |-> "ran", files |-> <<>>],
      [kind |-> "ran", files |-> <<"x.md", "y.md", "z.md">>],
      [kind |-> "timeout", files |-> <<>>],
      [kind |-> "missing", files |-> <<>>] }

\* _grep_fallback without an explicit grep_pattern
grep_fallback(query, grep, limit) ==
    IF Words(query) = {} THEN <<>>
    ELSE IF grep.kind # "ran" THEN <<>>
    ELSE [i \in 1..Min({limit, Len(grep.files)}) |->
             [path |-> grep.files[i], score |-> Max({10, 100 - 8 * (i - 1)}),
              source |-> "grep"]]

\* results.sort(key=lambda r: r.get("score", 0), reverse=True)
SortByScore_none(results) == results

SortByScore(results) == SortDesc(results, [k \in 1..Len(results) |-> results[k].score])

\* vault_search: the globals after the call and the list returned
vault_search(q, query, limit, min_score, installed, probe, semantic, grep) ==
    LET a == is_qmd_available(q, installed, probe)
        s == qmd_search(a, installed, semantic)
    IN  IF a.available = "yes" /\ s.results # <<>>
        THEN LET kept == IF min_score > 0
                         THEN PickSeq(s.results, {k \in 1..Len(s.results) : s.results[k].score >= min_score})
                         ELSE s.results
             IN  [q |-> s.q, results |-> Prefix(SortByScore(kept), limit)]
        ELSE [q |-> IF a.available = "yes" THEN s.q ELSE a,
              results |-> grep_fallback(query, grep, limit)]

IsQmdAvailable(installed, probe) ==
    /\ WouldProbe(qmd, installed) => qmd.total < MaxProbes
    /\ qmd' = is_qmd_available(qmd, installed, probe)
    /\ res' = [op |-> "is_qmd_available", ok |-> TRUE, err |-> "",
               value |-> qmd'.available = "yes",
               fresh |-> qmd.available = "unset",
               found |-> qmd'.path = "found",
               probe |-> IF WouldProbe(qmd, installed) THEN probe ELSE "none"]
    /\ UNCHANGED <<backlog, today, upd>>

VaultSearch(query, limit, min_score, installed, probe, semantic, grep) ==
    /\ WouldProbe(qmd, installed) => qmd.total < MaxProbes
    /\ LET r == vault_search(qmd, query, limit, min_score, installed, probe, semantic, grep)
       IN  /\ qmd' = r.q
           /\ res' = [op |-> "vault_search", ok |-> TRUE, err |-> "",
                      query |-> query, limit |-> limit, min_score |-> min_score,
                      fresh |-> qmd.available = "unset",
                      found |-> r.q.path = "found",
                      probe |-> IF WouldProbe(qmd, installed) THEN probe ELSE "none",
                      semantic |-> semantic, grep |-> grep,
                      results |-> r.results]
    /\ UNCHANGED <<backlog, today, upd>>

ResetCache ==
    /\ qmd' = reset_cache(qmd)
    /\ res' = [op |-> "reset_cache", ok |-> TRUE, err |-> ""]
    /\ UNCHANGED <<backlog, today, upd>>

Limits == {1, 2}
MinScores == {0, 50}

InitSearch ==
    /\ exists = FALSE
    /\ doc = <<>>
    /\ today = 1
    /\ changelog = <<>>
    /\ state = DefaultState
    /\ assigned = <<>>
    /\ res = NoRes
    /\ ExtInit

NextSearch ==
    \/ \E installed \in BOOLEAN, probe \in ProbeOutcomes : IsQmdAvailable(installed, probe)
    \/ \E query \in Queries, limit \in Limits, min_score \in MinScores, installed \in BOOLEAN, probe \in ProbeOutcomes, semantic \in SemanticOutcomes, grep \in GrepOutcomes : VaultSearch(query, limit, min_score, installed, probe, semantic, grep)
    \/ ResetCache

SpecSearch == InitSearch /\ [][NextSearch]_vars

\* C19: between two reset_cache calls the probe subprocess runs at most once
\* and all is_qmd_available and vault_search calls see one availability
\* value; a probe that times out, raises or exits with a non-zero code leaves
\* "unavailable" in the cache; a call that finds the cache empty (at start or
\* after reset_cache) detects again, running the probe when the binary is
\* found.
C19_ProbedOnce ==
    /\ qmd.probes <= 1
    /\ Cardinality(qmd.seen) <= 1
    /\ res.op \in {"is_qmd_available", "vault_search"} =>
          /\ qmd.seen = {qmd.available}
          /\ qmd.available \in {"yes", "no"}
          /\ res.probe \in {"nonzero", "timeout", "raise"} => qmd.available = "no"
          /\ res.probe = "zero" => qmd.available = "yes"
          /\ (res.fresh /\ res.found) <=> res.probe # "none"
          /\ ~res.found => qmd.available = "no"

\* the cache was reset after a successful probe, and the next call probed
\* again and timed out
C19_Witness ==
    /\ res.op = "vault_search"
    /\ res.probe = "timeout"
    /\ qmd.total = 2
    /\ qmd.probes = 1
    /\ qmd.available = "no"

\* C20: vault_search returns hits of the semantic backend, those of at
\* least min_score, best first and at most limit of them, when that backend
\* is available and its search gives at least one hit; otherwise it returns
\* what grep gives (its first limit files, in order); a backend that is
\* missing, times out, exits with an error or raises counts as giving
\* nothing, and the call returns normally.
C20_BackendSelection ==
    res.op = "vault_search" =>
        LET sem == IF res.found /\ res.semantic.kind = "zero" THEN res.semantic.results ELSE <<>>
            files == IF res.grep.kind = "ran" /\ Words(res.query) # {} THEN res.grep.files ELSE <<>>
            passing == {k \in 1..Len(sem) : sem[k].score >= res.min_score}
            r == res.results
        IN  /\ res.ok
            /\ IF qmd.available = "yes" /\ sem # <<>>
               THEN /\ \A k \in 1..Len(r) : \E j \in passing : r[k] = sem[j]
                    /\ \A k \in 1..Len(r) : r[k].source = "qmd"
                    /\ \A k \in 1..(Len(r) - 1) : r[k].score >= r[k + 1].score
                    /\ Len(r) = Min({res.limit, Cardinality(passing)})
                    /\ \A j \in passing : \A k \in 1..Len(r) :
                          sem[j].score > r[k].score => \E i \in 1..Len(r) : r[i] = sem[j]
               ELSE /\ Len(r) = Min({res.limit, Len(files)})
                    /\ \A k \in 1..Len(r) : r[k].source = "grep" /\ r[k].path = files[k]

\* the semantic backend answered three hits out of order, one below
\* min_score, and the call returned the other two, best first
C20_Witness ==
    /\ res.op = "vault_search"
    /\ qmd.available = "yes"
    /\ Len(res.semantic.results) = 3
    /\ res.min_score = 50
    /\ res.limit = 2
    /\ res.results = <<QmdHit("b.md", 95), QmdHit("c.md", 60)>>

-----------------------------------------------------------------------------
(* Changelog synthesis on a backlog that holds archived ideas: the file is *)
(* the template, or the template without its Archive section.              *)

InitSynthDocs ==
    /\ exists = TRUE
    /\ doc \in {Template, WithoutArchive(Template)}
    /\ today = 1
    /\ changelog \in [1..LogSize -> LogLines]
    /\ state = DefaultState
    /\ assigned = <<>>
    /\ res = NoRes
    /\ ExtInit

NextSynthDocs ==
    \/ \E description \in Descriptions : CaptureIdea(TA, description, "ux", {})
    \/ \E id \in MarkerIds(doc), impl \in ImplDates : MarkImplemented(id, impl)
    \/ \E days_back \in DaysBack : SynthesizeChangelog(days_back)
    \/ Tick

SpecSynthDocs == InitSynthDocs /\ [][NextSynthDocs]_vars

MarkerCount(c) == Cardinality({i \in 1..Len(c) : IsMarker(c[i])})

\* the annotation lines between the marker of id and the next marker or
\* heading
AnnotationsOf(c, id) ==
    LET i == FirstMarker(c, id)
        stops == {q \in (i + 1)..Len(c) : IsMarker(c[q]) \/ IsHeading(c[q])}
        hi == IF stops = {} THEN Len(c) ELSE Min(stops) - 1
    IN  Cardinality({q \in i..hi : c[q].k = "enrich"})

\* the entry of id is a new AI idea: unranked, in the Low section, by author
NewAIIdea(c, id, author) ==
    LET i == FirstMarker(c, id)
    IN  /\ Cardinality(MarkersOf(c, id)) = 1
        /\ SectionOf(c, i) = "h3low"
        /\ c[i + 2].k = "author" /\ c[i + 2].s = author
        /\ c[i + 4].k = "score" /\ c[i + 4].n = 0

\* C21: each candidate a changelog synthesis run processes makes one edit.
\* When its best similarity to an idea of the pool is above 0.4, that idea
\* gets one more annotation and no entry is added; otherwise one entry is
\* added, unranked, in the Low section, by 'AI (Anthropic Changelog
\* Synthesis)', and no annotation.  The counts the call reports are the
\* numbers of annotations and entries the document gained.
C21_OneEditPerCandidate ==
    [][\A days_back \in DaysBack :
         (SynthesizeChangelog(days_back) /\ res'.scanned > 0) =>
            /\ \A k \in 1..Len(SynthRelevant(days_back)) :
                  LET b == SynthFirst(days_back, k - 1)
                      a == SynthFirst(days_back, k)
                      f == SynthRelevant(days_back)[k].feature
                      m == BestMatch(b.pool, f)
                  IN  IF m # 0 /\ PoolSim(f, b.pool[m]) > EnrichBar
                      THEN /\ MarkerCount(a.c) = MarkerCount(b.c)
                           /\ EnrichCount(a.c) = EnrichCount(b.c) + 1
                           /\ AnnotationsOf(a.c, b.pool[m].id) = AnnotationsOf(b.c, b.pool[m].id) + 1
                      ELSE /\ MarkerCount(a.c) = MarkerCount(b.c) + 1
                           /\ EnrichCount(a.c) = EnrichCount(b.c)
                           /\ NewAIIdea(a.c, a.ids[Len(a.ids)], "AI (Anthropic Changelog Synthesis)")
            /\ res'.created = MarkerCount(doc') - MarkerCount(doc)
            /\ res'.enriched = EnrichCount(doc') - EnrichCount(doc)]_vars

-----------------------------------------------------------------------------
(* Session learnings synthesis.  A block of a learnings file is the record *)
(* of what parse_session_learnings reads from it: the date of its file,    *)
(* its title, its Suggested fix and What happened texts ("" when the label *)
(* is absent) and its Status word.                                         *)

TF == "Fix: Calendar sync drops events"
LT1 == "Calendar sync drops events"
LX1 == "Retry the calendar fetch when the provider returns a partial page"
LW1 == "Two events were missing from the daily plan."
LT2 == "Slow vault search on large folders"
LT3 == "Meeting prep assistant misses attendees"
LX3 == "Read attendees from the invite"

Learning(date, title, fix, what, status) == [date |-> date, title |-> title, fix |-> fix, what |-> what, status |-> status]

LA(date) == Learning(date, LT1, LX1, LW1, "pending")
LB(date) == Learning(date, LT2, "", "", "pending")
LC(date) == Learning(date, LT3, LX3, "", "pending")

LearnBar == 5000

\* the pending blocks of the files named since_date or later, newest file
\* first
RECURSIVE parse_session_learnings(_, _)
parse_session_learnings(ls, since_date) ==
    IF ls = <<>> THEN <<>>
    ELSE (IF ls[1].date < since_date \/ ls[1].status # "pending" THEN <<>> ELSE <<ls[1]>>)
         \o parse_session_learnings(Tail(ls), since_date)

\* learning['title'] + ' ' + learning.get('suggested_fix', '')
SearchText(l) == l.title \o " " \o l.fix

\* f"Fix: {learning['title']}" (no sample title reaches 80 characters)
FixTitle(l) == "Fix: " \o l.title

LearningDescription(l) ==
    "From session learning (<date>): " \o l.what \o " Suggested fix: " \o l.fix

\* the loop over learnings, from learning k on; st as in SynthLoop; boosted =
\* the titles the semantic search of find_similar_ideas flags
RECURSIVE LearnLoop(_, _, _, _, _)
LearnLoop(ls, k, st, boosted, now) ==
    IF k > Len(ls) THEN st
    ELSE LET l == ls[k]
             b == BestMatch(st.pool, SearchText(l))
             r == enrich_idea_in_backlog(st.e, st.c, st.pool[b].id,
                                         "Session learning (<date>): " \o l.title \o ". " \o l.fix,
                                         "Session Learning <date>", now)
             id == generate_idea_id(st.e, st.c)
             similar == find_similar_ideas(st.e, st.c, FixTitle(l),
                                           LearningDescription(l), boosted, now)
         IN  IF b # 0 /\ PoolSim(SearchText(l), st.pool[b]) > LearnBar
             THEN LearnLoop(ls, k + 1,
                            [st EXCEPT !.c = r.doc,
                                       !.enriched = @ + (IF r.ok THEN 1 ELSE 0)],
                            boosted, now)
             ELSE IF l.fix = "" THEN LearnLoop(ls, k + 1, st, boosted, now)
             ELSE IF similar # <<>> /\ similar[1].similarity > 70
             THEN LearnLoop(ls, k + 1, st, boosted, now)
             ELSE LearnLoop(ls, k + 1,
                            [st EXCEPT
                               !.e = TRUE,
                               !.c = add_ai_idea_to_backlog(st.e, st.c, id, FixTitle(l),
                                         LearningDescription(l), "system",
                                         "Session Learning Synthesis", now),
                               !.created = @ + 1,
                               !.ids = Append(@, id),
                               !.pool = PoolWith(@, id, FixTitle(l), LearningDescription(l))],
                            boosted, now)

\* since_date = now - days_back, and max(since_date, last_synthesis) when a
\* watermark is stored
SinceDate_window(last, now, days_back) == now - days_back

SinceDate(last, now, days_back) == IF last # 0 THEN Max({now - days_back, last}) ELSE now - days_back

\* the learnings a synthesize_learnings call reads in the current state
LearnPending(days_back) ==
    LET last == load_synthesis_state(state).last_learnings_synthesis
    IN  parse_session_learnings(learnings, SinceDate(last, today, days_back))

\* the loop of synthesize_learnings over the first k learnings
LearnFirst(days_back, k, boosted) ==
    LearnLoop(SubSeq(LearnPending(days_back), 1, k), 1,
              [e |-> exists, c |-> doc,
               pool |-> PoolOf(parse_backlog_file(exists, doc, today)),
               created |-> 0, enriched |-> 0, ids |-> <<>>], boosted, today)

\* synthesize_learnings
SynthesizeLearnings(days_back, boosted) ==
    LET st == load_synthesis_state(state)
        found == LearnPending(days_back)
        call == [NoRes EXCEPT !.op = "synthesize_learnings"]
    IN  IF found = <<>>
        THEN /\ res' = call
             /\ UNCHANGED <<ext, exists, doc, today, changelog, state, assigned>>
        ELSE \E out \in {LearnFirst(days_back, Len(found), boosted)} :
             /\ Len(st.synthesis_history) < MaxRuns
             /\ Len(assigned) + Len(out.ids) <= MaxIdeas
             /\ EnrichCount(out.c) <= MaxEnrich
             /\ exists' = out.e
             /\ doc' = out.c
             /\ assigned' = assigned \o out.ids
             /\ state' = [st EXCEPT
                            !.file = "ok",
                            !.last_learnings_synthesis = today,
                            !.synthesis_history =
                                Append(@, [type |-> "learnings", date |-> today,
                                           scanned |-> Len(found),
                                           created |-> out.created,
                                           enriched |-> out.enriched])]
             /\ res' = [call EXCEPT !.scanned = Len(found),
                                    !.created = out.created,
                                    !.enriched = out.enriched]
             /\ UNCHANGED <<ext, today, changelog>>

\* the synthesis state file is damaged from outside the server (a write cut
\* short, an edit by hand): it is there but json.loads refuses it
DamageStateFile ==
    /\ state.file = "ok"
    /\ state' = [state EXCEPT !.file = "bad"]
    /\ UNCHANGED <<ext, exists, doc, today, changelog, assigned, res>>

RunLogs ==
    {<<>>,
     <<[date |-> 2, feature |-> F1], [date |-> 1, feature |-> F1]>>,
     <<[date |-> 2, feature |-> F3], [date |-> 1, feature |-> F1]>>}

RunLearnings ==
    {<<>>,
     <<LA(2), LA(1)>>,
     <<LC(2), LB(1)>>,
     <<Learning(1, LT3, LX3, "", "done"), LA(1)>>}

RunDaysBack == {0, 30}

RunTitles == {TA, TF, FixTitle(LC(1)), generate_idea_title_from_feature(F1), generate_idea_title_from_feature(F3)}

InitRuns ==
    /\ exists = FALSE
    /\ doc = <<>>
    /\ today = 1
    /\ changelog \in RunLogs
    /\ learnings \in RunLearnings
    /\ state = DefaultState
    /\ assigned = <<>>
    /\ res = NoRes
    /\ tasks = NoTasks /\ upd = NoUpd /\ qmd = NoQmd

NextRuns ==
    \/ \E title \in {TA, TF}, description \in Descriptions : CaptureIdea(title, description, "ux", {})
    \/ \E days_back \in RunDaysBack : SynthesizeChangelog(days_back)
    \/ \E days_back \in RunDaysBack, boosted \in {{}, RunTitles} : SynthesizeLearnings(days_back, boosted)
    \/ DamageStateFile
    \/ Tick

SpecRuns == InitRuns /\ [][NextRuns]_vars

\* the pool holds an entry for the idea id
InPool(pool, id) == \E j \in 1..Len(pool) : pool[j].id = id

PoolEntry(pool, id) == pool[Min({j \in 1..Len(pool) : pool[j].id = id})]

\* candidate k2 of a run, of text f, meets the idea an earlier candidate k1
\* of the run created: b1, a1 the run before and after k1, b2, a2 before and
\* after k2.  The idea is in the pool; when f resembles it above the bar, k2
\* adds one annotation (to its best match of the pool) and creates nothing.
MeetsCreated(b1, a1, b2, a2, f, bar) ==
    Len(a1.ids) = Len(b1.ids) + 1 =>
        LET y == a1.ids[Len(a1.ids)]
        IN  /\ InPool(b2.pool, y)
            /\ PoolSim(f, PoolEntry(b2.pool, y)) > bar =>
                  /\ a2.ids = b2.ids
                  /\ MarkerCount(a2.c) = MarkerCount(b2.c)
                  /\ a2.enriched = b2.enriched + 1
                  /\ AnnotationsOf(a2.c, b2.pool[BestMatch(b2.pool, f)].id)
                        = AnnotationsOf(b2.c, b2.pool[BestMatch(b2.pool, f)].id) + 1

\* C22: within one synthesis run an idea created for a candidate is in the
\* pool every later candidate is matched against; a later candidate that
\* resembles it above the bar of the source (0.4 changelog, 0.5 learnings)
\* enriches instead of creating, so a run creates no second idea for it.
C22_CreatedJoinsPool ==
    [][/\ \A days_back \in RunDaysBack :
            SynthesizeChangelog(days_back) =>
               \A k1, k2 \in 1..Len(SynthRelevant(days_back)) :
                  k1 < k2 =>
                     MeetsCreated(SynthFirst(days_back, k1 - 1), SynthFirst(days_back, k1),
                                  SynthFirst(days_back, k2 - 1), SynthFirst(days_back, k2),
                                  SynthRelevant(days_back)[k2].feature, EnrichBar)
       /\ \A days_back \in RunDaysBack, boosted \in {{}, RunTitles} :
            SynthesizeLearnings(days_back, boosted) =>
               \A k1, k2 \in 1..Len(LearnPending(days_back)) :
                  k1 < k2 =>
                     MeetsCreated(LearnFirst(days_back, k1 - 1, boosted), LearnFirst(days_back, k1, boosted),
                                  LearnFirst(days_back, k2 - 1, boosted), LearnFirst(days_back, k2, boosted),
                                  SearchText(LearnPending(days_back)[k2]), LearnBar)]_vars

\* a run created the only idea of the backlog for one candidate and enriched
\* it for a later one
C22_Witness ==
    /\ res.op \in {"synthesize_changelog", "synthesize_learnings"}
    /\ res.created = 1
    /\ res.enriched = 1
    /\ assigned = <<1>>
    /\ MarkerCount(doc) = 1
    /\ AnnotationsOf(doc, 1) = 1

\* C23: a synthesize_changelog or synthesize_learnings call that returns
\* success leaves the watermark of its source at the date of the call and
\* appends one entry with the counts of the run to synthesis_history, also
\* when the run found nothing to process.
C23_RunPersisted ==
    [][/\ \A days_back \in RunDaysBack :
            (SynthesizeChangelog(days_back) /\ res'.ok) =>
               /\ state'.file = "ok"
               /\ state'.last_changelog_synthesis = today
               /\ Len(state'.synthesis_history) = Len(state.synthesis_history) + 1
               /\ LET h == state'.synthesis_history[Len(state'.synthesis_history)]
                  IN  /\ h.type = "changelog" /\ h.date = today
                      /\ h.scanned = res'.scanned /\ h.relevant = res'.relevant
                      /\ h.created = res'.created /\ h.enriched = res'.enriched
       /\ \A days_back \in RunDaysBack, boosted \in {{}, RunTitles} :
            (SynthesizeLearnings(days_back, boosted) /\ res'.ok) =>
               /\ state'.file = "ok"
               /\ state'.last_learnings_synthesis = today
               /\ Len(state'.synthesis_history) = Len(state.synthesis_history) + 1
               /\ LET h == state'.synthesis_history[Len(state'.synthesis_history)]
                  IN  /\ h.type = "learnings" /\ h.date = today
                      /\ h.scanned = res'.scanned
                      /\ h.created = res'.created /\ h.enriched = res'.enriched]_vars

\* the watermark a readable state file holds for a source (0: none)
Watermark(s, source) ==
    IF s.file # "ok" THEN 0
    ELSE IF source = "changelog" THEN s.last_changelog_synthesis
    ELSE s.last_learnings_synthesis

\* the later of today - days_back and the watermark
Cutoff(source, days_back) ==
    Max({today - days_back} \cup {w \in {Watermark(state, source)} : w # 0})

Edits(c1, c2) == (MarkerCount(c2) - MarkerCount(c1)) + (EnrichCount(c2) - EnrichCount(c1))

C25_MalformedStateFaults ==
    [][(/\ state.file = "bad"
        /\ \/ \E days_back \in RunDaysBack : SynthesizeChangelog(days_back)
           \/ \E days_back \in RunDaysBack, boosted \in {{}, RunTitles} :
                 SynthesizeLearnings(days_back, boosted))
       => /\ ~res'.ok
          /\ state' = state]_vars

-----------------------------------------------------------------------------
(* Changelog synthesis over a changelog with more relevant lines than one   *)
(* run takes.                                                               *)

MaxBulk == 30       \* entries and annotations of a document after two runs

Rep(n, x) == [k \in 1..n |-> x]

\* a F3 lines, b F1 lines, c F2 lines, d F3 lines, in file order, of day 1
BulkLog(a, b, c, d) ==
    LET fs == Rep(a, F3) \o Rep(b, F1) \o Rep(c, F2) \o Rep(d, F3)
    IN  [k \in 1..Len(fs) |-> [date |-> 1, feature |-> fs[k]]]

BulkLogs == {BulkLog(a, b, c, d) : a \in 0..2, b \in 14..16, c \in 0..1, d \in 0..1}

InitBulk ==
    /\ exists = FALSE
    /\ doc = <<>>
    /\ today = 1
    /\ changelog \in BulkLogs
    /\ state = DefaultState
    /\ assigned = <<>>
    /\ res = NoRes
    /\ ExtInit

NextBulk ==
    \/ \E days_back \in RunDaysBack : SynthesizeChangelogUpTo(days_back, MaxBulk, MaxBulk)
    \/ Tick

SpecBulk == InitBulk /\ [][NextBulk]_vars

\* the edits a run made for the changelog line f: entries titled after f and
\* annotations quoting f that c2 has and c1 has not
EditsFor(f, c1, c2) ==
    LET Made(c) == Cardinality({i \in 1..Len(c) :
                       \/ IsMarker(c[i]) /\ c[i].s = generate_idea_title_from_feature(f)
                       \/ c[i].k = "enrich" /\ c[i].s = "Claude Code  (<date>): " \o f})
    IN  Made(c2) - Made(c1)

\* the lines of the changelog that quote f and are dated cutoff or later
LinesOf(f, cutoff) ==
    Cardinality({k \in 1..Len(changelog) :
                    changelog[k].feature = f /\ changelog[k].date >= cutoff})

FeatureOfTitle(s) == CHOOSE f \in Features : generate_idea_title_from_feature(f) = s

\* C26: a synthesize_changelog run acts on lines of relevance 20 or more
\* only and on at most 15 of them, the most relevant ones: a line it left
\* out is not more relevant than a line it acted on, the entries it creates
\* are numbered by descending relevance, and it reports
\* ideas_created + ideas_enriched <= relevant_features <= 15.
C26_TopFifteen ==
    [][\A days_back \in RunDaysBack :
          SynthesizeChangelogUpTo(days_back, MaxBulk, MaxBulk) =>
             LET cutoff == Cutoff("changelog", days_back)
                 Done(f) == EditsFor(f, doc, doc')
                 fresh == {i \in 1..Len(doc') : IsMarker(doc'[i]) /\ doc'[i].id \notin MarkerIds(doc)}
             IN  /\ \A f \in Features :
                       /\ Done(f) > 0 => score_changelog_relevance(f) >= 20
                       /\ Done(f) <= LinesOf(f, cutoff)
                 /\ Edits(doc, doc') <= 15
                 /\ \A f, g \in Features :
                       (/\ Done(f) > 0
                        /\ score_changelog_relevance(g) >= 20
                        /\ Done(g) < LinesOf(g, cutoff))
                       => score_changelog_relevance(g) <= score_changelog_relevance(f)
                 /\ \A i, j \in fresh :
                       score_changelog_relevance(FeatureOfTitle(doc'[i].s))
                          > score_changelog_relevance(FeatureOfTitle(doc'[j].s))
                       => doc'[i].id < doc'[j].id
                 /\ res'.created + res'.enriched <= res'.relevant
                 /\ res'.relevant <= 15
                 /\ res'.created + res'.enriched = Edits(doc, doc')]_vars

\* a run over a changelog that opens with a line of relevance 25 and holds
\* sixteen lines of relevance 55: fifteen edits, none for the opening line
C26_Witness ==
    /\ res.op = "synthesize_changelog"
    /\ Len(changelog) > 15
    /\ changelog[1].feature = F3
    /\ LinesOf(F1, 1) = 16
    /\ res.relevant = 15
    /\ res.created + res.enriched = 15
    /\ EditsFor(F1, <<>>, doc) = 15
    /\ EditsFor(F3, <<>>, doc) = 0

-----------------------------------------------------------------------------
(* validate_backlog against a scanned system state.                         *)

\* what the scans find: a skill at 0.6237 or 0.61, a tool at 0.6214, a
\* shipped item at 0.57, a done item at 0.3846 or 0.52
ScanInputs ==
    {[about |-> MarkerIds(doc), skills |-> s, tools |-> t, shipped |-> w, done |-> d] :
        s \in {<<>>, <<6237>>, <<6100>>},
        t \in {<<>>, <<6214>>},
        w \in {<<>>, <<5700>>},
        d \in {<<>>, <<3846>>, <<5200>>}}

InitRedundancy ==
    /\ exists = FALSE
    /\ doc = <<>>
    /\ today = 1
    /\ changelog = <<>>
    /\ state = DefaultState
    /\ assigned = <<>>
    /\ res = NoRes
    /\ ExtInit

NextRedundancy ==
    \/ \E description \in Descriptions :
          today = 1 /\ CaptureIdea(TA, description, "ux", {})
    \/ /\ today = 1
       /\ AddAIIdea("Leverage: " \o FeatureFacts[F1].stem, AIDescription(F1), "knowledge", 54)
    \/ \E id \in MarkerIds(doc) : today = 1 /\ MarkImplemented(id, 0)
    \/ \E scan \in ScanInputs : ValidateBacklog(scan)
    \/ Advance

SpecRedundancy == InitRedundancy /\ [][NextRedundancy]_vars

\* the scan a validate_backlog result r was computed from
ScanOf(r) == IF r.op = "validate_backlog" THEN {r.scan} ELSE {}

\* the texts of a scan that are a kill-level match of an idea in scan.about
KillMatches(scan) ==
    {k \in 1..Len(ScanItems(scan)) : ScanItems(scan)[k].sim > KillBar(ScanItems(scan)[k].source)}

\* C27: validate_backlog reports 'downrank' for an active idea that no text
\* of any source matches at kill level and that a done item of the
\* capabilities report resembles by more than 0.35 and at most 0.5.
C27_Downrank ==
    [][\A scan \in ScanOf(res') :
          ValidateBacklog(scan) =>
             \A i \in ActiveMarkers(doc) :
                (/\ doc[i].id \in scan.about
                 /\ KillMatches(scan) = {}
                 /\ \E k \in 1..Len(scan.done) : scan.done[k] > 3500 /\ scan.done[k] <= 5000)
                => \E k \in ActionsFor(res'.actions, doc[i].id) :
                      res'.actions[k].action = "downrank"]_vars

\* C28: validate_backlog reports at most one action for an active idea and
\* none for an implemented one; for an idea that texts of the sources match
\* (a skill or a tool above 0.6, a shipped item above 0.55, a done item above
\* 0.5) the action is 'kill', with the source, the text and the rounded
\* similarity of the match of the largest similarity; an archive_stale
\* action is reported only for an idea that nothing matched; the actions are
\* listed by descending confidence, and validated = healthy + the number of
\* actions.
C28_BestMatch ==
    [][\A scan \in ScanOf(res') :
          ValidateBacklog(scan) =>
             LET items == ScanItems(scan)
                 kills == KillMatches(scan)
                 a == res'.actions
             IN  /\ \A i \in 1..Len(doc) :
                       IsMarker(doc[i]) =>
                          LET as == ActionsFor(a, doc[i].id)
                              hit == doc[i].id \in scan.about /\ kills # {}
                          IN  /\ Cardinality(as) <= 1
                              /\ i \notin ActiveMarkers(doc) => as = {}
                              /\ (i \in ActiveMarkers(doc) /\ hit) =>
                                    \E k \in as, m \in kills :
                                       /\ \A n \in kills : items[n].sim <= items[m].sim
                                       /\ a[k].action = "kill"
                                       /\ a[k].reason = items[m].source
                                       /\ a[k].item = items[m].item
                                       /\ a[k].confidence = Min({RoundSim(items[m].sim), 99})
                              /\ \A k \in as : a[k].action = "archive_stale" => ~hit
                 /\ \A k \in 1..(Len(a) - 1) : a[k].confidence >= a[k + 1].confidence
                 /\ res'.validated = res'.healthy + Len(a)
                 /\ res'.validated = Cardinality(ActiveMarkers(doc))]_vars

-----------------------------------------------------------------------------
(* Ideas created on documents that differ in the place an entry goes to:    *)
(* under its section heading, before the Archive or a Summary heading,      *)
(* before a trailing separator, at the end.                                 *)

Without(c, kinds) == SelectSeq(c, LAMBDA t : t.k \notin kinds)

PlaceDocs ==
    {[e |-> FALSE, c |-> <<>>],
     [e |-> TRUE, c |-> Template],
     [e |-> TRUE, c |-> Without(Template, {"h3low"})],
     [e |-> TRUE, c |-> Without(WithoutArchive(Template), {"h3low"})],
     [e |-> TRUE, c |-> Without(Template, {"h3low", "h2arch"})],
     [e |-> TRUE, c |-> <<Plain("txt"), NL, NL, Plain("h2sum"), NL, NL, Plain("txt"), NL>>],
     [e |-> TRUE, c |-> <<Plain("txt"), NL, NL, Plain("sep"), NL>>],
     [e |-> TRUE, c |-> <<Plain("txt"), NL>>]}

InitPlaces ==
    /\ \E d \in PlaceDocs : exists = d.e /\ doc = d.c
    /\ today = 1
    /\ changelog \in {<<>>, <<[date |-> 1, feature |-> F1]>>}
    /\ state = DefaultState
    /\ assigned = <<>>
    /\ res = NoRes
    /\ ExtInit

NextPlaces ==
    \/ \E title \in {TA, TX}, description \in Descriptions :
          CaptureIdea(title, description, "ux", {})
    \/ \E id \in MarkerIds(doc) : EnrichCount(doc) < MaxEnrich /\ EnrichIdea(id, NextEvidence)
    \/ \E id \in MarkerIds(doc), impl \in ImplDates : MarkImplemented(id, impl)
    \/ \E days_back \in DaysBack : SynthesizeChangelog(days_back)
    \/ Tick

SpecPlaces == InitPlaces /\ [][NextPlaces]_vars

\* the ids a step hands out to created ideas
Created(a1, a2) == {a2[k] : k \in (Len(a1) + 1)..Len(a2)}

ReportedActiveOnce(ideas, id) ==
    /\ Cardinality({k \in 1..Len(ideas) : ideas[k].id = id}) = 1
    /\ \A k \in 1..Len(ideas) : ideas[k].id = id => ideas[k].status = "active"

\* C29: after a capture_idea call or a synthesis run that created an idea,
\* parse_backlog_file reports the new id once, with status 'active',
\* wherever the entry was put.
C29_NewIdeaActive ==
    [][\A id \in Created(assigned, assigned') :
          ReportedActiveOnce(parse_backlog_file(exists', doc', today'), id)]_vars

\* the ideas parse_backlog_file reports, but for the one with the id, in
\* file order, by the fields the program reports
OthersOf(ideas, id) ==
    LET rest == SelectSeq(ideas, LAMBDA i : i.id # id)
    IN  [k \in 1..Len(rest) |->
            [id |-> rest[k].id, title |-> rest[k].title, score |-> rest[k].score,
             category |-> rest[k].category, captured |-> rest[k].captured,
             description |-> rest[k].description, status |-> rest[k].status]]

HeadingCount(c, kind) == Cardinality({i \in 1..Len(c) : c[i].k = kind})

\* C30: a capture_idea, enrich_idea or mark_implemented call changes no idea
\* but the one it creates, annotates or archives: parse_backlog_file reports
\* the other ideas with the same fields and in the same order before and
\* after the call, every heading is kept, and every other entry stays under
\* the heading it was under.
C30_EditsTouchTarget ==
    [][(res'.op \in {"capture_idea", "enrich_idea", "mark_implemented"} /\ today' = today)
       => /\ OthersOf(parse_backlog_file(exists', doc', today), res'.id)
             = OthersOf(parse_backlog_file(exists, doc, today), res'.id)
          /\ exists =>
                /\ \A kind \in {"h2pq", "h3high", "h3med", "h3low", "h2arch", "h2sum"} :
                      HeadingCount(doc', kind) >= HeadingCount(doc, kind)
                /\ \A id \in MarkerIds(doc) \ {res'.id} :
                      SectionOf(doc', FirstMarker(doc', id)) = SectionOf(doc, FirstMarker(doc, id))]_vars

-----------------------------------------------------------------------------
(* The backlog tools on a vault without a file, with a title that holds    *)
(* the words 'Archive (Implemented)'.                                      *)

NextWords ==
    \/ \E title \in {TA, TX}, description \in Descriptions :
          CaptureIdea(title, description, "ux", {})
    \/ \E id \in MarkerIds(doc) :
          EnrichCount(doc) < MaxAnnotations /\ EnrichIdea(id, NextEvidence)
    \/ \E id \in MarkerIds(doc), impl \in ImplDates : MarkImplemented(id, impl)

SpecWords == InitBacklog /\ [][NextWords]_vars

====
